---- MODULE Spec2Model ----
(***************************************************************************)
(* The temporal layout engine of the GTD-Obsidian timeline view:           *)
(* TimelineRenderer (time windows, ticks, overlap columns, slot-offset     *)
(* cache, now-indicator timer), TimelineDragHandler (drop quantization and *)
(* task-line rewrite) and TimeParser (time tokens).                        *)
(*                                                                         *)
(* A Date is the number of minutes since 00:00 of the day of parsing; a    *)
(* value of 1440 or more lies on a following day.  An optional value that  *)
(* is undefined in the code is Undefined here.                             *)
(***************************************************************************)
EXTENDS Integers, Sequences, FiniteSets, TLC

VARIABLES
    tasks,          \* the ParsedTask[] handed to the layout and tick functions
    intervalMinutes,\* options.intervalMinutes
    taskLayout,     \* calculateOverlapLayout: the layout returned
    mergedRanges,   \* mergeTimeRanges: the windows returned
    timeSlots,      \* generateDynamicTimeSlots: the ticks returned
    pc,             \* "input" before a function is applied, "done" after it
    data,           \* DragEventData of a drop: originalLine and duration
    newTime,        \* the Date a drop target gives (getTimeFromDropTarget)
    adjustedTime,   \* handleTaskDrop: the Date after roundToInterval
    newLine,        \* the task line a drop or an edit save generated
    editedData,     \* TaskEditData of an edit save
    token,          \* a time token written into a task line
    timeInfo,       \* parseTaskTime: the TaskTimeInfo returned, or Null
    currentContent, \* TimelineRenderer.currentContent
    enableDragging, \* options.enableDragging
    dragHandler,    \* TimelineRenderer.dragHandler: its intervalMinutes
    cachedSlotOffsets, \* TimelineRenderer.cachedSlotOffsets; <<>> is null
    frames,         \* the requestAnimationFrame callbacks not yet run
    pass,           \* the render passes so far; the DOM attached is its last
    slotData,       \* the slots attached carry a data-time attribute
    dropZones,      \* the slots attached have their drop listeners
    taskElements,   \* the task elements of the DOM attached
    positioned,     \* the last run of a callback: pass, ticks, offsets used
    updateTimer,    \* TimelineRenderer.updateTimer
    activeTimers,   \* the intervals of the window that are set and not cleared
    timerCount,     \* the number of intervals set so far
    currentTimeIndicator, \* TimelineRenderer.currentTimeIndicator
    renders,        \* the re-renders after the first render
    errorShown,     \* the container shows the inline timeline-error state
    uncaughtError,  \* a failure left a callback of the renderer uncaught
    updateEvents,   \* the timeline-content-updated events dispatched
    updateCalls,    \* the calls of handleTaskUpdate by drop, toggle and edit
    wallClock       \* the Date that new Date() gave to the indicator code

layoutVars == <<tasks, intervalMinutes, taskLayout, mergedRanges, timeSlots>>

tokenVars ==
    <<data, newTime, adjustedTime, newLine, editedData, token, timeInfo>>

rendererVars ==
    <<currentContent, enableDragging, dragHandler, cachedSlotOffsets, frames,
      pass, slotData, dropZones, taskElements, positioned, updateTimer,
      activeTimers, timerCount, currentTimeIndicator, renders, errorShown,
      uncaughtError, updateEvents, updateCalls, wallClock>>

vars == <<layoutVars, pc, tokenVars, rendererVars>>

\* The interval choices of the settings dropdown.
IntervalChoices == {15, 30, 60}

Undefined == 0 - 1

\* null, and undefined where the value is an object or an array.
Null == [null |-> TRUE]

\* The drop and token variables of a state in which no drop, edit save or
\* token parse has happened.
TokenIdle ==
    /\ data = Undefined
    /\ newTime = Undefined
    /\ adjustedTime = Undefined
    /\ newLine = Undefined
    /\ editedData = Undefined
    /\ token = Undefined
    /\ timeInfo = Undefined

\* The renderer variables of a renderer just constructed, but for the
\* option enableDragging.
RendererCreated ==
    /\ currentContent = ""
    /\ dragHandler = Null
    /\ cachedSlotOffsets = <<>>
    /\ frames = <<>>
    /\ pass = 0
    /\ slotData = FALSE
    /\ dropZones = FALSE
    /\ taskElements = <<>>
    /\ positioned = Null
    /\ updateTimer = Undefined
    /\ activeTimers = {}
    /\ timerCount = 0
    /\ currentTimeIndicator = Null
    /\ renders = 0
    /\ errorShown = FALSE
    /\ uncaughtError = FALSE
    /\ updateEvents = <<>>
    /\ updateCalls = 0
    /\ wallClock = Undefined

\* The functions of the renderer applied on their own leave the renderer
\* variables alone.
RendererIdle == RendererCreated /\ enableDragging = FALSE

MinutesPerDay == 24 * 60

\* A maximum that returns its second argument.
MaxSecond(a, b) == b

Max2(a, b) == IF a >= b THEN a ELSE b

Min2(a, b) == IF a <= b THEN a ELSE b

Range(s) == {s[i] : i \in DOMAIN s}

(***************************************************************************)
(* Array.prototype.sort with a comparator on one numeric key: a stable     *)
(* sort, so elements with equal keys keep their input order.  keys[i] is   *)
(* the key of element i; the result lists the indices in sorted order.     *)
(***************************************************************************)
RECURSIVE InsertIndex(_, _, _)
InsertIndex(sorted, i, keys) ==
    IF sorted = <<>> THEN <<i>>
    ELSE IF keys[sorted[Len(sorted)]] <= keys[i] THEN Append(sorted, i)
    ELSE Append(InsertIndex(SubSeq(sorted, 1, Len(sorted) - 1), i, keys),
                sorted[Len(sorted)])

RECURSIVE SortedIndices(_, _)
SortedIndices(n, keys) ==
    IF n = 0 THEN <<>>
    ELSE InsertIndex(SortedIndices(n - 1, keys), n, keys)

StableSort(s, keys) ==
    LET perm == SortedIndices(Len(s), keys)
    IN  [i \in 1..Len(s) |-> s[perm[i]]]

\* Array.prototype.sort((a, b) => a - b) on a list of numbers.
SortAscending(s) == SortSeq(s, LAMBDA a, b : a < b)

(***************************************************************************)
(* ParsedTask: startTime, endTime, duration, dueTime (each optional).      *)
(***************************************************************************)
TaskStart(task) ==
    IF task.startTime # Undefined THEN task.startTime ELSE task.dueTime

\* The effective end used by every consumer of a task's interval.
TaskEnd(task) ==
    IF task.endTime # Undefined THEN task.endTime
    ELSE IF task.duration # Undefined /\ task.duration > 0
         THEN TaskStart(task) + task.duration
         ELSE TaskStart(task) + 30

HasTime(task) == task.startTime # Undefined \/ task.dueTime # Undefined

(***************************************************************************)
(* TimelineRenderer.calculateOverlapLayout                                 *)
(*                                                                         *)
(* Percentages (offset, width) are kept in PctUnits-ths of a percent, so   *)
(* that 100/groupSize and the 0.68 and 0.5 factors stay integral.          *)
(***************************************************************************)
PctUnits == 6 * 10

\* tasks.map(...).filter(Boolean): one range per task that has a start.
RECURSIVE MapTaskRanges(_, _)
MapTaskRanges(ts, i) ==
    IF i > Len(ts) THEN <<>>
    ELSE (IF HasTime(ts[i])
          THEN <<[task |-> i, startMs |-> TaskStart(ts[i]), endMs |-> TaskEnd(ts[i])]>>
          ELSE <<>>) \o MapTaskRanges(ts, i + 1)

\* taskRanges.sort((a, b) => a.startMs - b.startMs)
SortRangesByStart(ranges) ==
    StableSort(ranges, [i \in 1..Len(ranges) |-> ranges[i].startMs])

\* Mutant of the sweep: every range goes to one group.
SweepGroupsSingle(ranges, i, groups, currentGroup, currentGroupEnd) == <<ranges>>

\* The sweep that partitions the sorted ranges into groups.  currentGroupEnd
\* starts at -Infinity, so the first range always opens a group: that is the
\* case currentGroup = <<>> here.
RECURSIVE SweepGroups(_, _, _, _, _)
SweepGroups(ranges, i, groups, currentGroup, currentGroupEnd) ==
    IF i > Len(ranges)
    THEN (IF Len(currentGroup) > 0 THEN Append(groups, currentGroup) ELSE groups)
    ELSE LET tr == ranges[i]
         IN  IF currentGroup # <<>> /\ tr.startMs <= currentGroupEnd
             THEN SweepGroups(ranges, i + 1, groups, Append(currentGroup, tr),
                              Max2(currentGroupEnd, tr.endMs))
             ELSE SweepGroups(ranges, i + 1,
                              IF Len(currentGroup) > 0
                              THEN Append(groups, currentGroup) ELSE groups,
                              <<tr>>, tr.endMs)

\* Mutants of the column search: one that never reuses a column, one that
\* reuses the first column without comparing its end time.
FirstReusableColumnNever(columnEndTimes, startMs) == 0

FirstReusableColumnUnchecked(columnEndTimes, startMs) ==
    IF Len(columnEndTimes) > 0 THEN 1 ELSE 0

\* The inner loop over columnEndTimes: the first column whose end time is at
\* or before startMs, as a 1-based index; 0 when no column can be reused.
FirstReusableColumn(columnEndTimes, startMs) ==
    LET fits == {c \in 1..Len(columnEndTimes) : startMs >= columnEndTimes[c]}
    IN  IF fits = {} THEN 0
        ELSE CHOOSE c \in fits : \A d \in fits : c <= d

\* The greedy column assignment of one group: the 0-based column of each
\* range of the group, in group order, and the final columnEndTimes.
RECURSIVE AssignColumns(_, _, _, _)
AssignColumns(group, i, columnEndTimes, assignments) ==
    IF i > Len(group)
    THEN [assignments |-> assignments, columnEndTimes |-> columnEndTimes]
    ELSE LET tr == group[i]
             c  == FirstReusableColumn(columnEndTimes, tr.startMs)
         IN  IF c # 0
             THEN AssignColumns(group, i + 1,
                                [columnEndTimes EXCEPT ![c] = tr.endMs],
                                Append(assignments, c - 1))
             ELSE AssignColumns(group, i + 1,
                                Append(columnEndTimes, tr.endMs),
                                Append(assignments, Len(columnEndTimes)))

\* taskWidth for a group of groupSize columns.
TaskWidth(groupSize) ==
    LET base == Max2((100 * PctUnits) \div groupSize, 50 * PctUnits)
    IN  IF groupSize = 3 THEN (base * 68) \div 100
        ELSE IF groupSize > 3 THEN (base * 5) \div 10
        ELSE base

\* The result entries of one group.  group and column are the loop's group
\* index and assignedCol, carried along with what the code returns.
LayoutGroup(group, g) ==
    LET sortedGroup == SortRangesByStart(group)
        assigned    == AssignColumns(sortedGroup, 1, <<>>, <<>>)
        groupSize   == Max2(1, Len(assigned.columnEndTimes))
    IN  [i \in 1..Len(sortedGroup) |->
            [task      |-> sortedGroup[i].task,
             offset    |-> ((100 * PctUnits) \div groupSize) * assigned.assignments[i],
             width     |-> TaskWidth(groupSize),
             groupSize |-> groupSize,
             column    |-> assigned.assignments[i],
             group     |-> g]]

RECURSIVE LayoutGroups(_, _)
LayoutGroups(groups, g) ==
    IF g > Len(groups) THEN <<>>
    ELSE LayoutGroup(groups[g], g) \o LayoutGroups(groups, g + 1)

calculateOverlapLayout(ts) ==
    LET taskRanges == SortRangesByStart(MapTaskRanges(ts, 1))
    IN  IF Len(taskRanges) = 0 THEN <<>>
        ELSE LayoutGroups(SweepGroups(taskRanges, 1, <<>>, <<>>, 0), 1)

(***************************************************************************)
(* TimelineRenderer.mergeTimeRanges, generateTimeSlotsForRange,            *)
(* alignTimeToInterval and generateDynamicTimeSlots                        *)
(***************************************************************************)
\* bufferTime of mergeTimeRanges: 2 hours, in minutes.
bufferTime == 120

\* The loop of generateDynamicTimeSlots that collects one range per task.
RECURSIVE TaskTimeRanges(_, _)
TaskTimeRanges(ts, i) ==
    IF i > Len(ts) THEN <<>>
    ELSE (IF HasTime(ts[i])
          THEN <<[start |-> TaskStart(ts[i]), end |-> TaskEnd(ts[i])]>>
          ELSE <<>>) \o TaskTimeRanges(ts, i + 1)

\* Mutant of the merge test: a range exactly 2 hours after the cluster's
\* end opens a new window.
FoldsIntoClusterStrict(current, lastMerged) ==
    current.start < lastMerged.end + bufferTime

\* The test that folds the current range into the last merged one.
FoldsIntoCluster(current, lastMerged) ==
    current.start <= lastMerged.end + bufferTime

RECURSIVE MergeLoop(_, _, _)
MergeLoop(sortedRanges, i, merged) ==
    IF i > Len(sortedRanges) THEN merged
    ELSE LET current    == sortedRanges[i]
             lastMerged == merged[Len(merged)]
         IN  IF FoldsIntoCluster(current, lastMerged)
             THEN MergeLoop(sortedRanges, i + 1,
                            [merged EXCEPT ![Len(merged)].end =
                                Max2(lastMerged.end, current.end)])
             ELSE MergeLoop(sortedRanges, i + 1, Append(merged, current))

mergeTimeRanges(ranges) ==
    IF Len(ranges) = 0 THEN <<>>
    ELSE LET sortedRanges ==
                 StableSort(ranges, [i \in 1..Len(ranges) |-> ranges[i].start])
         IN  MergeLoop(sortedRanges, 2, <<sortedRanges[1]>>)

\* Mutant of the alignment: the start is used as it is.
alignTimeToIntervalNone(time, interval) == time

\* new Date(y, m, d, hours, floor(minutes / interval) * interval, 0, 0)
alignTimeToInterval(time, interval) ==
    LET minutes        == time % 60
        alignedMinutes == (minutes \div interval) * interval
    IN  (time - minutes) + alignedMinutes

\* while (currentTime <= endTime) { slots.push(currentTime); currentTime += interval }
SlotLoop(currentTime, endTime, interval) ==
    IF currentTime <= endTime
    THEN [k \in 1..(((endTime - currentTime) \div interval) + 1) |->
             currentTime + (k - 1) * interval]
    ELSE <<>>

generateTimeSlotsForRange(startTime, endTime, interval) ==
    LET adjustedEndTime ==
            IF endTime < startTime THEN endTime + MinutesPerDay ELSE endTime
    IN  SlotLoop(alignTimeToInterval(startTime, interval), adjustedEndTime, interval)

\* The ticks of one merged range, with one interval of buffer on each side.
RangeSlots(range, interval) ==
    generateTimeSlotsForRange(range.start - interval, range.end + interval, interval)

RECURSIVE Flatten(_, _)
Flatten(seqs, i) ==
    IF i > Len(seqs) THEN <<>> ELSE seqs[i] \o Flatten(seqs, i + 1)

\* Mutant of the merge of the ranges' slots: every slot is pushed.
CollectSlotsWithRepeats(ranges, interval) ==
    Flatten([i \in 1..Len(ranges) |-> RangeSlots(ranges[i], interval)], 1)

\* The loop over rangesForSlots: the slots of each range are pushed onto
\* allSlots unless allSlots already holds that instant.  The slots of one
\* range are distinct, so a slot is dropped exactly when an earlier range
\* produced it.
CollectSlots(ranges, interval) ==
    LET perRange == [i \in 1..Len(ranges) |-> RangeSlots(ranges[i], interval)]
        earlier  == [i \in 1..Len(ranges) |->
                        UNION {Range(perRange[j]) : j \in 1..(i - 1)}]
        pushed   == [i \in 1..Len(ranges) |->
                        SelectSeq(perRange[i], LAMBDA slot : slot \notin earlier[i])]
    IN  Flatten(pushed, 1)

generateDynamicTimeSlots(ts, interval) ==
    LET taskTimeRanges == TaskTimeRanges(ts, 1)
    IN  IF Len(taskTimeRanges) = 0 THEN <<>>
        ELSE SortAscending(CollectSlots(mergeTimeRanges(taskTimeRanges), interval))

(***************************************************************************)
(* SpecLayout: calculateOverlapLayout applied to bounded task lists.       *)
(***************************************************************************)
MaxTasks == 3

LayoutStarts == {540, 555, 570}

Task(startTime, endTime, duration, dueTime) ==
    [startTime |-> startTime, endTime |-> endTime,
     duration |-> duration, dueTime |-> dueTime]

\* Per start: a bare start (30 minute default), a 15 and a 60 minute
\* duration, a zero-length range (@s-s), a 45 minute range, and the task of
\* a line "@a-b @s" with b before s, whose end precedes its start; and one
\* task that has a due time only.
LayoutTaskSet ==
    UNION {{Task(s, Undefined, Undefined, Undefined),
            Task(s, s + 15, 15, Undefined),
            Task(s, s + 60, 60, Undefined),
            Task(s, s, Undefined, Undefined),
            Task(s, s + 45, 45, Undefined),
            Task(s, s - 15, 30, Undefined)} : s \in LayoutStarts}
    \cup {Task(Undefined, Undefined, Undefined, 555)}

\* The tasks of the lines @09:00+30min, @09:15+30min and @09:50+15min.
ScenarioA ==
    <<Task(540, 570, 30, Undefined), Task(555, 585, 30, Undefined),
      Task(590, 605, 15, Undefined)>>

LayoutInputs ==
    UNION {[1..n -> LayoutTaskSet] : n \in 1..MaxTasks} \cup {ScenarioA}

LayoutInit ==
    /\ tasks \in LayoutInputs
    /\ intervalMinutes = 30
    /\ taskLayout = <<>>
    /\ mergedRanges = <<>>
    /\ timeSlots = <<>>
    /\ pc = "input"
    /\ TokenIdle
    /\ RendererIdle

CalcLayout ==
    /\ pc = "input"
    /\ taskLayout' = calculateOverlapLayout(tasks)
    /\ pc' = "done"
    /\ UNCHANGED <<tasks, intervalMinutes, mergedRanges, timeSlots, tokenVars, rendererVars>>

LayoutNext == CalcLayout

SpecLayout == LayoutInit /\ [][LayoutNext]_vars

\* The layout entries of group g, and the tasks they stand for.
GroupEntries(g) == {i \in DOMAIN taskLayout : taskLayout[i].group = g}

LayoutGroupIds == {taskLayout[i].group : i \in DOMAIN taskLayout}

EntryStart(i) == TaskStart(tasks[taskLayout[i].task])

EntryEnd(i) == TaskEnd(tasks[taskLayout[i].task])

\* The number of entries of group g whose interval [start, end) holds t.
OverlapAt(g, t) ==
    Cardinality({i \in GroupEntries(g) : EntryStart(i) <= t /\ t < EntryEnd(i)})

\* The largest number of group g's tasks that overlap at one instant.  The
\* count only rises at a start, so the starts are the instants to look at.
MaxOverlap(g) ==
    LET counts == {OverlapAt(g, EntryStart(i)) : i \in GroupEntries(g)}
    IN  CHOOSE m \in counts : \A n \in counts : n <= m

GroupSizeOf(g) ==
    LET i == CHOOSE j \in GroupEntries(g) : TRUE IN taskLayout[i].groupSize

ColumnsUsed(g) == {taskLayout[i].column : i \in GroupEntries(g)}

ProperGroup(g) == \A i \in GroupEntries(g) : EntryStart(i) < EntryEnd(i)

WellFormedGroup(g) == \A i \in GroupEntries(g) : EntryStart(i) <= EntryEnd(i)

\* C1 as stated: in every overlap group, for any timed tasks, groupSize (the
\* number of columns the greedy first-fit opened) equals the largest number
\* of the group's tasks overlapping at one instant.  Read in the claim's
\* favour: a group in which no instant is covered counts as 1 (the
\* documented default group size), and only groups whose tasks all have
\* end >= start are looked at.
C1_ColumnCountIsMaxOverlap_AnyTasks ==
    pc = "done" =>
        \A g \in LayoutGroupIds :
            WellFormedGroup(g) =>
                /\ GroupSizeOf(g) = Max2(1, MaxOverlap(g))
                /\ Cardinality(ColumnsUsed(g)) = Max2(1, MaxOverlap(g))

\* C1 amended: in every overlap group all of whose tasks end strictly after
\* they start, groupSize and the number of columns used equal the largest
\* number of the group's tasks overlapping at one instant.
C1_ColumnCountIsMaxOverlap ==
    pc = "done" =>
        \A g \in LayoutGroupIds :
            ProperGroup(g) =>
                /\ GroupSizeOf(g) = MaxOverlap(g)
                /\ Cardinality(ColumnsUsed(g)) = MaxOverlap(g)

\* A group of three proper tasks in which a column is reused and two
\* columns are needed.
C1_Witness ==
    /\ pc = "done"
    /\ \E g \in LayoutGroupIds :
          /\ ProperGroup(g)
          /\ Cardinality(GroupEntries(g)) = 3
          /\ GroupSizeOf(g) = 2

\* C2: two distinct tasks of the same overlap group and the same column
\* never overlap: one's effective end is at or before the other's start.
C2_SameColumnDisjoint ==
    pc = "done" =>
        \A i, j \in DOMAIN taskLayout :
            (i # j /\ taskLayout[i].group = taskLayout[j].group
                   /\ taskLayout[i].column = taskLayout[j].column)
            => (EntryEnd(i) <= EntryStart(j) \/ EntryEnd(j) <= EntryStart(i))

\* Two tasks share a column of a group that has a second column.
C2_Witness ==
    /\ pc = "done"
    /\ \E i, j \in DOMAIN taskLayout :
          /\ i # j
          /\ taskLayout[i].group = taskLayout[j].group
          /\ taskLayout[i].column = taskLayout[j].column
          /\ taskLayout[i].groupSize = 2

(***************************************************************************)
(* SpecSlots: mergeTimeRanges and generateDynamicTimeSlots applied to      *)
(* bounded task lists under each interval of the settings.                 *)
(***************************************************************************)
\* 06:30; 09:00+30min; 09:05; 11:30 and 11:31 (2h and 2h01 after 09:30);
\* 23:30+2h; @22:00-01:00; "@10:00-11:00 @12:00" (start 12:00, end 11:00);
\* due:09:15; a task with no time.
SlotTaskSet ==
    {Task(390, Undefined, Undefined, Undefined),
     Task(540, 570, 30, Undefined),
     Task(545, Undefined, Undefined, Undefined),
     Task(690, Undefined, Undefined, Undefined),
     Task(691, Undefined, Undefined, Undefined),
     Task(1410, 1530, 120, Undefined),
     Task(1320, 1500, 180, Undefined),
     Task(720, 660, 60, Undefined),
     Task(Undefined, Undefined, Undefined, 555),
     Task(Undefined, Undefined, Undefined, Undefined)}

SlotInputs == UNION {[1..n -> SlotTaskSet] : n \in 1..MaxTasks}

SlotsInit ==
    /\ tasks \in SlotInputs
    /\ intervalMinutes \in IntervalChoices
    /\ taskLayout = <<>>
    /\ mergedRanges = <<>>
    /\ timeSlots = <<>>
    /\ pc = "input"
    /\ TokenIdle
    /\ RendererIdle

\* generateDynamicTimeSlots(tasksWithTime), with the windows it merged.
CalcSlots ==
    /\ pc = "input"
    /\ mergedRanges' = mergeTimeRanges(TaskTimeRanges(tasks, 1))
    /\ timeSlots' = generateDynamicTimeSlots(tasks, intervalMinutes)
    /\ pc' = "done"
    /\ UNCHANGED <<tasks, intervalMinutes, taskLayout, tokenVars, rendererVars>>

SlotsNext == CalcSlots

SpecSlots == SlotsInit /\ [][SlotsNext]_vars

\* The task ranges in the order mergeTimeRanges visits them.
SortedTaskRanges ==
    LET ranges == TaskTimeRanges(tasks, 1)
    IN  StableSort(ranges, [i \in 1..Len(ranges) |-> ranges[i].start])

\* The window a range landed in: the last window that starts at or before it.
WindowOf(range) ==
    LET at == {w \in DOMAIN mergedRanges : mergedRanges[w].start <= range.start}
    IN  CHOOSE w \in at : \A v \in at : v <= w

\* The end of the running cluster once ranges 1..i have been folded: the
\* largest end among the ranges up to i that share range i's window.
RunningClusterEnd(sr, i) ==
    LET ends == {sr[j].end : j \in {k \in 1..i : WindowOf(sr[k]) = WindowOf(sr[i])}}
    IN  CHOOSE e \in ends : \A f \in ends : f <= e

\* C5: in ascending start order a range that starts at most 2 hours after
\* the running cluster's end is folded into that cluster, whose end becomes
\* the maximum of the ends; a range that starts more than 2 hours after it
\* opens a new window.  Hence, of two tasks, both land in one window exactly
\* when the gap between the first's end and the second's start is <= 2h.
C5_MergeThreshold ==
    pc = "done" =>
        LET sr == SortedTaskRanges
        IN  /\ (Len(sr) = 0) = (Len(mergedRanges) = 0)
            /\ \A i \in DOMAIN sr : WindowOf(sr[i]) \in DOMAIN mergedRanges
            /\ \A w \in DOMAIN mergedRanges :
                  LET members == {i \in DOMAIN sr : WindowOf(sr[i]) = w}
                      last    == CHOOSE i \in members : \A j \in members : j <= i
                      first   == CHOOSE i \in members : \A j \in members : i <= j
                  IN  /\ mergedRanges[w].start = sr[first].start
                      /\ mergedRanges[w].end = RunningClusterEnd(sr, last)
            /\ \A i \in 1..(Len(sr) - 1) :
                  (WindowOf(sr[i + 1]) = WindowOf(sr[i]))
                  = (sr[i + 1].start - RunningClusterEnd(sr, i) <= 120)
            /\ Len(sr) = 2 =>
                  (Len(mergedRanges) = 1) = (sr[2].start - sr[1].end <= 120)

\* Two tasks exactly 2 hours apart share a window whose end is the later end.
C5_Witness ==
    /\ pc = "done"
    /\ Len(SortedTaskRanges) = 2
    /\ SortedTaskRanges[2].start - SortedTaskRanges[1].end = 120
    /\ Len(mergedRanges) = 1
    /\ mergedRanges[1].end = SortedTaskRanges[2].end

DayStart(time) == time - (time % MinutesPerDay)

HourOfDay(time) == (time % MinutesPerDay) \div 60

\* max(06:00, cluster start hour - 2 hours) on the cluster's day.
WindowFloor(range) == DayStart(range.start) + Max2(6, HourOfDay(range.start) - 2) * 60

\* 01:00 of the calendar day after the cluster's end.
WindowCeiling(range) == DayStart(range.end) + MinutesPerDay + 60

\* C6 as stated: every tick lies between the floor max(06:00, cluster start
\* hour - 2h) and the ceiling 01:00 of the following day of the window it
\* was generated for.  Read in the claim's favour: a tick may lie within
\* the bounds of any window, and only task lists whose tasks all have
\* end >= start are looked at.
C6_TicksWithinFloorAndCeiling ==
    (pc = "done" /\ \A i \in DOMAIN tasks : HasTime(tasks[i]) =>
                          TaskStart(tasks[i]) <= TaskEnd(tasks[i]))
    => \A k \in DOMAIN timeSlots :
           \E w \in DOMAIN mergedRanges :
               /\ WindowFloor(mergedRanges[w]) <= timeSlots[k]
               /\ timeSlots[k] <= WindowCeiling(mergedRanges[w])

\* C7: the tick list is strictly ascending and every tick lies on an
\* intervalMinutes boundary of its hour.
C7_TicksAscendingAndAligned ==
    pc = "done" =>
        /\ \A k \in 1..(Len(timeSlots) - 1) : timeSlots[k] < timeSlots[k + 1]
        /\ \A k \in DOMAIN timeSlots : (timeSlots[k] % 60) % intervalMinutes = 0

\* Two windows whose padded ranges produce a common tick, from a task list
\* with a start off the interval grid.
C7_Witness ==
    /\ pc = "done"
    /\ Len(timeSlots) > 0
    /\ \E i \in DOMAIN tasks :
          HasTime(tasks[i]) /\ TaskStart(tasks[i]) % intervalMinutes # 0
    /\ \E v, w \in DOMAIN mergedRanges :
          /\ v # w
          /\ Range(RangeSlots(mergedRanges[v], intervalMinutes))
                \cap Range(RangeSlots(mergedRanges[w], intervalMinutes)) # {}

(***************************************************************************)
(* Strings.  A JavaScript string is a string here; the characters are      *)
(* ASCII.  CharAt is s[i] with the first character at index 1.             *)
(***************************************************************************)
CharAt(s, i) == IF i \in 1..Len(s) THEN SubSeq(s, i, i) ELSE ""

Chars(s) == {CharAt(s, i) : i \in 1..Len(s)}

Digits == "0123456789"

UpperCase == "ABCDEFGHIJKLMNOPQRSTUVWXYZ"

LowerCase == "abcdefghijklmnopqrstuvwxyz"

DigitChars == Chars(Digits)

\* \w of a regular expression without the u flag.
WordChars == DigitChars \cup Chars(UpperCase) \cup Chars(LowerCase) \cup {"_"}

\* \s, restricted to the blank and the tab.
WhiteSpace == {" ", "\t"}

IndexIn(s, c) == CHOOSE i \in 1..Len(s) : CharAt(s, i) = c

LowerChar(c) ==
    IF c \in Chars(UpperCase) THEN CharAt(LowerCase, IndexIn(UpperCase, c))
    ELSE c

\* String.prototype.toLowerCase; also the reading of a pattern with the i flag.
RECURSIVE toLowerCase(_)
toLowerCase(s) ==
    IF s = "" THEN "" ELSE LowerChar(Head(s)) \o toLowerCase(Tail(s))

AllDigits(s) == \A i \in 1..Len(s) : CharAt(s, i) \in DigitChars

\* parseInt(s, 10) of a string of digits, as matched by (\d+) or (\d{1,2}).
RECURSIVE parseInt(_)
parseInt(s) ==
    IF s = "" THEN 0
    ELSE parseInt(SubSeq(s, 1, Len(s) - 1)) * 10
         + (IndexIn(Digits, CharAt(s, Len(s))) - 1)

\* Number.prototype.toString of a non-negative integer ("${n}").
RECURSIVE NumberToString(_)
NumberToString(n) ==
    IF n < 10 THEN CharAt(Digits, n + 1)
    ELSE NumberToString(n \div 10) \o CharAt(Digits, (n % 10) + 1)

\* A padStart that pads nothing.
padStartNone(s) == s

\* String.prototype.padStart(2, '0').
padStart2(s) == IF Len(s) < 2 THEN "0" \o s ELSE s

RECURSIVE trimStart(_)
trimStart(s) ==
    IF s # "" /\ Head(s) \in WhiteSpace THEN trimStart(Tail(s)) ELSE s

RECURSIVE trimEnd(_)
trimEnd(s) ==
    IF s # "" /\ CharAt(s, Len(s)) \in WhiteSpace
    THEN trimEnd(SubSeq(s, 1, Len(s) - 1))
    ELSE s

\* String.prototype.trim.
trim(s) == trimEnd(trimStart(s))

StartsWith(s, prefix) ==
    Len(s) >= Len(prefix) /\ SubSeq(s, 1, Len(prefix)) = prefix

EndsWith(s, suffix) ==
    Len(s) >= Len(suffix) /\ SubSeq(s, Len(s) - Len(suffix) + 1, Len(s)) = suffix

\* The number of characters of the set cs that s holds in a row from index i.
RECURSIVE RunLength(_, _, _)
RunLength(s, i, cs) ==
    IF CharAt(s, i) \in cs THEN 1 + RunLength(s, i + 1, cs) ELSE 0

\* The text of s from index i to its end (s.substring(i - 1)).
From(s, i) == SubSeq(s, i, Len(s))

(***************************************************************************)
(* TimeParser.  A Date it builds lies on the day of parsing: hours * 60 +  *)
(* minutes.  null is Undefined for a Date and Null for a TaskTimeInfo.     *)
(***************************************************************************)
getHours(date) == (date % MinutesPerDay) \div 60

getMinutes(date) == date % 60

\* A createTimeFromHourMinute without the range check of its first line.
createTimeUnchecked(hours, minutes) == hours * 60 + minutes

createTimeFromHourMinute(hours, minutes) ==
    IF hours < 0 \/ hours > 23 \/ minutes < 0 \/ minutes > 59 THEN Undefined
    ELSE hours * 60 + minutes

formatTime(date) ==
    padStart2(NumberToString(getHours(date))) \o ":"
        \o padStart2(NumberToString(getMinutes(date)))

\* /^(\d{1,2}):(\d{2})$/ : the number of hour digits of the match, 0 if none.
Time24HourDigits(s) ==
    IF \E k \in {1, 2} :
           /\ Len(s) = k + 3
           /\ AllDigits(SubSeq(s, 1, k))
           /\ CharAt(s, k + 1) = ":"
           /\ AllDigits(From(s, k + 2))
    THEN Len(s) - 3
    ELSE 0

Time24Hours(s) == parseInt(SubSeq(s, 1, Time24HourDigits(s)))

Time24Minutes(s) == parseInt(From(s, Time24HourDigits(s) + 2))

\* /^(\d{1,2}):(\d{2})\s*(AM|PM|am|pm)$/i : the text before \s*, "" if none.
Time12Clock(s) ==
    IF Len(s) >= 2 /\ toLowerCase(From(s, Len(s) - 1)) \in {"am", "pm"}
       /\ Time24HourDigits(trimEnd(SubSeq(s, 1, Len(s) - 2))) > 0
    THEN trimEnd(SubSeq(s, 1, Len(s) - 2))
    ELSE ""

\* The hour of a 12-hour match after the AM/PM adjustment.
Time12Hours(s) ==
    LET hours == Time24Hours(Time12Clock(s))
        period == toLowerCase(From(s, Len(s) - 1))
    IN  IF period = "pm" /\ hours # 12 THEN hours + 12
        ELSE IF period = "am" /\ hours = 12 THEN 0
        ELSE hours

\* The CJK characters the regular expressions of TimeParser name.  A string
\* of the model holds ASCII characters only, so each of them is written as
\* one ASCII character that is no word character, no blank and no sign of a
\* token and that no other text of the model uses:
\*   上 ~   午 !   下 $   凌 %   晨 ^   中 &   晚 *
\*   点 .   时 ,   分 ;   钟 =   小 <   后 >
Han ==
    [shang |-> "~", wu |-> "!", xia |-> "$", ling |-> "%", chen |-> "^",
     zhong |-> "&", wan |-> "*", dian |-> ".", shi |-> ",", fen |-> ";",
     zhongClock |-> "=", xiao |-> "<", hou |-> ">"]

\* 上午, 下午, 凌晨, 中午, 晚上
ShangWu == Han.shang \o Han.wu

XiaWu == Han.xia \o Han.wu

LingChen == Han.ling \o Han.chen

ZhongWu == Han.zhong \o Han.wu

WanShang == Han.wan \o Han.shang

\* 小时, 分钟
XiaoShi == Han.xiao \o Han.shi

FenZhong == Han.fen \o Han.zhongClock

\* (上午|下午|凌晨|中午|晚上)? at the head of s: the period matched, "" if none.
ChinesePeriod(s) ==
    IF SubSeq(s, 1, Min2(2, Len(s))) \in {ShangWu, XiaWu, LingChen, ZhongWu, WanShang}
    THEN SubSeq(s, 1, 2)
    ELSE ""

\* (\d{1,2})?(分)?$ : the digits of the match, "-" if none.
ChineseMinuteDigits(t) ==
    LET d == IF EndsWith(t, Han.fen) THEN SubSeq(t, 1, Len(t) - 1) ELSE t
    IN  IF Len(d) <= 2 /\ AllDigits(d) THEN d ELSE "-"

\* (\d{1,2})(点|时)(\d{1,2})?(分)?$ : the number of hour digits of the
\* match, 0 if none.
ChineseHourDigits(r) ==
    IF \E k \in {1, 2} :
           /\ Len(r) >= k + 1
           /\ AllDigits(SubSeq(r, 1, k))
           /\ CharAt(r, k + 1) \in {Han.dian, Han.shi}
           /\ ChineseMinuteDigits(From(r, k + 2)) # "-"
    THEN IF CharAt(r, 2) \in DigitChars THEN 2 ELSE 1
    ELSE 0

\* The hour of a match after the adjustment for its period.
ChineseHours(period, hours) ==
    IF period = XiaWu /\ hours < 12 THEN hours + 12
    ELSE IF period = WanShang /\ hours < 12 THEN hours + 12
    ELSE IF period = ShangWu /\ hours = 12 THEN 0
    ELSE IF period = LingChen /\ hours = 12 THEN 0
    ELSE hours

\* chineseMatch[4] ? parseInt(chineseMatch[4], 10) : 0
ChineseMinutes(digits) == IF digits = "" THEN 0 ELSE parseInt(digits)

\* The Date of a string whose text after the period has k hour digits; with
\* k = 0 the first expression does not match and the second,
\* /^(\d{1,2})(点|时)$/, is tried on s.
ChineseTimeAt(s, period, rest, k) ==
    IF k > 0
    THEN createTimeFromHourMinute(
             ChineseHours(period, parseInt(SubSeq(rest, 1, k))),
             ChineseMinutes(ChineseMinuteDigits(From(rest, k + 2))))
    ELSE IF ChineseHourDigits(s) > 0 /\ Len(s) = ChineseHourDigits(s) + 1
    THEN createTimeFromHourMinute(parseInt(SubSeq(s, 1, Len(s) - 1)), 0)
    ELSE Undefined

ChineseTimeFrom(s, period, rest) ==
    ChineseTimeAt(s, period, rest, ChineseHourDigits(rest))

parseChineseTime(s) ==
    ChineseTimeFrom(s, ChinesePeriod(s), From(s, Len(ChinesePeriod(s)) + 1))

\* /^in\s+(\d+)\s+(minutes?|hours?)$/i with the digits from index i2 up to
\* index i3: <<amount, unit>> of the match, <<>> if none.
EnglishRelativeAt(s, i2, i3) ==
    IF toLowerCase(SubSeq(s, 1, Min2(2, Len(s)))) = "in" /\ i2 > 3 /\ i3 > i2
       /\ RunLength(s, i3, WhiteSpace) > 0
       /\ toLowerCase(From(s, i3 + RunLength(s, i3, WhiteSpace)))
              \in {"minute", "minutes", "hour", "hours"}
    THEN <<parseInt(SubSeq(s, i2, i3 - 1)),
           toLowerCase(From(s, i3 + RunLength(s, i3, WhiteSpace)))>>
    ELSE <<>>

EnglishRelativeFrom(s, i2) ==
    EnglishRelativeAt(s, i2, i2 + RunLength(s, i2, DigitChars))

EnglishRelative(s) == EnglishRelativeFrom(s, 3 + RunLength(s, 3, WhiteSpace))

\* /^(\d+)(分钟|小时)后$/ : <<amount, unit>> of the match, <<>> if none.
ChineseRelative(s) ==
    IF Len(s) >= 4 /\ CharAt(s, Len(s)) = Han.hou
       /\ SubSeq(s, Len(s) - 2, Len(s) - 1) \in {FenZhong, XiaoShi}
       /\ AllDigits(SubSeq(s, 1, Len(s) - 3))
    THEN <<parseInt(SubSeq(s, 1, Len(s) - 3)), SubSeq(s, Len(s) - 2, Len(s) - 1)>>
    ELSE <<>>

\* The Date of a match <<amount, unit>> whose unit of minutes starts with
\* minuteUnit; new Date() is wallClock, the clock when parseRelativeTime is
\* called.
RelativeDate(match, minuteUnit) ==
    IF StartsWith(match[2], minuteUnit) THEN wallClock + match[1]
    ELSE wallClock + match[1] * 60

RelativeDateOf(english, chinese) ==
    IF english # <<>> THEN RelativeDate(english, "minute")
    ELSE IF chinese # <<>> THEN RelativeDate(chinese, FenZhong)
    ELSE Undefined

parseRelativeTime(s) == RelativeDateOf(EnglishRelative(s), ChineseRelative(s))

\* if (chineseTime) return chineseTime; ... return relativeTime or null
FirstDate(chineseTime, relativeTime) ==
    IF chineseTime # Undefined THEN chineseTime ELSE relativeTime

parseTime(timeStr) ==
    LET trimmed == trim(timeStr)
    IN  IF timeStr = "" THEN Undefined
        ELSE IF Time24HourDigits(trimmed) > 0
        THEN createTimeFromHourMinute(Time24Hours(trimmed), Time24Minutes(trimmed))
        ELSE IF Time12Clock(trimmed) # ""
        THEN createTimeFromHourMinute(Time12Hours(trimmed),
                                      Time24Minutes(Time12Clock(trimmed)))
        ELSE FirstDate(parseChineseTime(trimmed), parseRelativeTime(trimmed))

TaskTimeInfo(startTime, duration, endTime, dueTime) ==
    [startTime |-> startTime, duration |-> duration,
     endTime |-> endTime, dueTime |-> dueTime]

SetMin(S) == CHOOSE i \in S : \A j \in S : i <= j

SetMax(S) == CHOOSE i \in S : \A j \in S : i >= j

\* A parseTaskTime without its range rule.
RangeSplitNever(s) == 0

\* /^@(.+?)-(.+)$/ : the index of the "-" the match splits at, 0 if none.
\* The lazy first group stops at the first "-" that leaves text on both sides.
RangeSplit(s) ==
    LET splits == {i \in 3..(Len(s) - 1) : CharAt(s, i) = "-"}
    IN  IF CharAt(s, 1) = "@" /\ splits # {} THEN SetMin(splits) ELSE 0

\* (\d+)(h|min|小时|分钟)$ with the i flag on the text after a "+": the unit
\* matched, in lower case, "" if none.
DurationUnit(rest) ==
    LET lower == toLowerCase(rest)
    IN  IF Len(rest) > 2 /\ From(rest, Len(rest) - 1) \in {XiaoShi, FenZhong}
           /\ AllDigits(SubSeq(rest, 1, Len(rest) - 2))
        THEN From(rest, Len(rest) - 1)
        ELSE IF EndsWith(lower, "min") /\ Len(rest) > 3
           /\ AllDigits(SubSeq(rest, 1, Len(rest) - 3))
        THEN "min"
        ELSE IF EndsWith(lower, "h") /\ Len(rest) > 1
                /\ AllDigits(SubSeq(rest, 1, Len(rest) - 1))
        THEN "h"
        ELSE ""

\* A parseTaskTime without its duration rule.
DurationSplitNever(s) == 0

\* /^@(.+?)\+(\d+)(h|min|小时|分钟)$/i : the index of the "+", 0 if none.
DurationSplit(s) ==
    LET splits == {i \in 3..Len(s) :
                      CharAt(s, i) = "+" /\ DurationUnit(From(s, i + 1)) # ""}
    IN  IF CharAt(s, 1) = "@" /\ splits # {} THEN SetMin(splits) ELSE 0

parseTaskTime(timeStr) ==
    LET trimmed == trim(timeStr)
        dueTime == parseTime(From(trimmed, 5))
        rangeAt == RangeSplit(trimmed)
        rangeStart == parseTime(SubSeq(trimmed, 2, rangeAt - 1))
        rangeEnd == parseTime(From(trimmed, rangeAt + 1))
        adjustedEndTime ==
            IF rangeEnd < rangeStart THEN rangeEnd + MinutesPerDay ELSE rangeEnd
        durationAt == DurationSplit(trimmed)
        durationStart == parseTime(SubSeq(trimmed, 2, durationAt - 1))
        unit == DurationUnit(From(trimmed, durationAt + 1))
        amount == parseInt(SubSeq(trimmed, durationAt + 1,
                                  Len(trimmed) - Len(unit)))
        duration == IF unit = "h" \/ unit = XiaoShi THEN amount * 60 ELSE amount
        simpleStart == parseTime(From(trimmed, 2))
    IN  IF timeStr = "" THEN Null
        ELSE IF Len(trimmed) >= 5 /\ toLowerCase(SubSeq(trimmed, 1, 4)) = "due:"
        THEN IF dueTime # Undefined
             THEN TaskTimeInfo(Undefined, Undefined, Undefined, dueTime)
             ELSE Null
        ELSE IF rangeAt > 0 /\ rangeStart # Undefined /\ rangeEnd # Undefined
        THEN TaskTimeInfo(rangeStart, adjustedEndTime - rangeStart,
                          adjustedEndTime, Undefined)
        ELSE IF durationAt > 0 /\ durationStart # Undefined
        THEN TaskTimeInfo(durationStart, duration, durationStart + duration,
                          Undefined)
        ELSE IF CharAt(trimmed, 1) = "@" /\ Len(trimmed) >= 2
        THEN IF simpleStart # Undefined
             THEN TaskTimeInfo(simpleStart, Undefined, Undefined, Undefined)
             ELSE Null
        ELSE Null

\* Math.round(a / b) for a >= 0 and b > 0: halves go up.
MathRoundFloor(a, b) == a \div b

MathRound(a, b) == (2 * a + b) \div (2 * b)

\* setMinutes(roundedMinutes, 0, 0) carries into the hour and the day.
roundToInterval(date, interval) ==
    LET minutes == getMinutes(date)
        roundedMinutes == MathRound(minutes, interval) * interval
    IN  date - minutes + roundedMinutes

(***************************************************************************)
(* TimelineRenderer.parseTasksFromContent.                                 *)
(***************************************************************************)
TokenChars == WordChars \cup {":", "-", "+"}

DueChars == WordChars \cup {":"}

\* [@][\w:\-+]+|due:[\w:]+ at index i: the length of the match, 0 if none.
TimeMatchAt(s, i) ==
    IF CharAt(s, i) = "@" /\ RunLength(s, i + 1, TokenChars) > 0
    THEN 1 + RunLength(s, i + 1, TokenChars)
    ELSE IF SubSeq(s, i, Min2(i + 3, Len(s))) = "due:"
            /\ RunLength(s, i + 4, DueChars) > 0
    THEN 4 + RunLength(s, i + 4, DueChars)
    ELSE 0

\* trimmedLine.match(/([@][\w:\-+]+|due:[\w:]+)/g) || [], scanning from i.
RECURSIVE TimeMatches(_, _)
TimeMatches(s, i) ==
    IF i > Len(s) THEN <<>>
    ELSE IF TimeMatchAt(s, i) > 0
    THEN <<SubSeq(s, i, i + TimeMatchAt(s, i) - 1)>>
             \o TimeMatches(s, i + TimeMatchAt(s, i))
    ELSE TimeMatches(s, i + 1)

\* ^-\s*\[ : the index of the "[" of the checkbox.
CheckboxAt(s) == 2 + RunLength(s, 2, WhiteSpace)

\* A match of every line that starts with a dash.
TaskMatchDash(s) == CharAt(s, 1) = "-"

\* /^-\s*\[([ x])\]\s*(.+?)(?:\s+([@][\w:\-+]+|due:[\w:]+))*$/ on a trimmed
\* line: the prefix matches and at least one character follows it.
TaskMatch(s) ==
    /\ CharAt(s, 1) = "-"
    /\ CharAt(s, CheckboxAt(s)) = "["
    /\ CharAt(s, CheckboxAt(s) + 1) \in {" ", "x"}
    /\ CharAt(s, CheckboxAt(s) + 2) = "]"
    /\ Len(s) > CheckboxAt(s) + 2

\* (?:\s+([@][\w:\-+]+|due:[\w:]+))*$ matches the whole of r.
RECURSIVE TailIsTokens(_)
TailIsTokens(r) ==
    IF r = "" THEN TRUE
    ELSE /\ Head(r) \in WhiteSpace
         /\ TimeMatchAt(trimStart(r), 1) > 0
         /\ TailIsTokens(From(trimStart(r), TimeMatchAt(trimStart(r), 1) + 1))

\* Group 2, (.+?): the shortest text after the checkbox that the tokens of
\* the line's tail follow.
TaskName(s) ==
    LET rest == trimStart(From(s, CheckboxAt(s) + 3))
        k == SetMin({n \in 1..Len(rest) : TailIsTokens(From(rest, n + 1))})
    IN  SubSeq(rest, 1, k)

ParsedTask(name, completed, timeInfo0, originalLine) ==
    [name |-> name, completed |-> completed,
     startTime |-> timeInfo0.startTime, endTime |-> timeInfo0.endTime,
     duration |-> timeInfo0.duration, dueTime |-> timeInfo0.dueTime,
     originalLine |-> originalLine]

\* The body of the for loop over timeMatches: the token's fields overwrite
\* those of the task; a token that does not parse and a duration of 0, which
\* is falsy, set nothing.
AssignTimeInfo(acc, info) ==
    IF info = Null THEN acc
    ELSE TaskTimeInfo(
             IF info.startTime # Undefined THEN info.startTime
             ELSE acc.startTime,
             IF info.duration # Undefined /\ info.duration # 0
             THEN info.duration ELSE acc.duration,
             IF info.endTime # Undefined THEN info.endTime ELSE acc.endTime,
             IF info.dueTime # Undefined THEN info.dueTime ELSE acc.dueTime)

\* The for loop over timeMatches.
RECURSIVE FoldTimeMatches(_, _, _)
FoldTimeMatches(timeMatches, i, acc) ==
    IF i > Len(timeMatches) THEN acc
    ELSE FoldTimeMatches(timeMatches, i + 1,
             AssignTimeInfo(acc, parseTaskTime(trim(timeMatches[i]))))

\* The task pushed for one line that matches.
ParseLine(line) ==
    LET trimmedLine == trim(line)
    IN  ParsedTask(trim(TaskName(trimmedLine)),
                   CharAt(trimmedLine, CheckboxAt(trimmedLine) + 1) = "x",
                   FoldTimeMatches(TimeMatches(trimmedLine, 1), 1,
                       TaskTimeInfo(Undefined, Undefined, Undefined, Undefined)),
                   trimmedLine)

\* A line the loop skips: blank, a comment, or no task.
SkipsLine(line) ==
    \/ trim(line) = ""
    \/ StartsWith(trim(line), "//")
    \/ StartsWith(trim(line), "#")
    \/ ~TaskMatch(trim(line))

\* content.split('\n')
RECURSIVE Split(_)
Split(content) ==
    IF "\n" \notin Chars(content) THEN <<content>>
    ELSE LET i == SetMin({j \in 1..Len(content) : CharAt(content, j) = "\n"})
         IN  <<SubSeq(content, 1, i - 1)>> \o Split(From(content, i + 1))

RECURSIVE ParseLines(_, _)
ParseLines(lines, i) ==
    IF i > Len(lines) THEN <<>>
    ELSE IF SkipsLine(lines[i]) THEN ParseLines(lines, i + 1)
    ELSE <<ParseLine(lines[i])>> \o ParseLines(lines, i + 1)

parseTasksFromContent(content) == ParseLines(Split(content), 1)

(***************************************************************************)
(* TimelineDragHandler: the task line rewritten on a drop.                 *)
(***************************************************************************)
DragEventData(originalLine, duration) ==
    [originalLine |-> originalLine, duration |-> duration]

\* newTimeStr: "@HH:mm", with "+Nh" for whole hours and "+Nmin" otherwise.
NewTimeStr(newStartTime, duration) ==
    "@" \o formatTime(newStartTime)
        \o (IF duration # Undefined /\ duration > 0
            THEN IF duration >= 60 /\ duration % 60 = 0
                 THEN "+" \o NumberToString(duration \div 60) \o "h"
                 ELSE "+" \o NumberToString(duration) \o "min"
            ELSE "")

\* \d{1,2}:\d{2} at index i: the length of the match, 0 if none.
ClockLength(s, i) ==
    IF CharAt(s, i) \in DigitChars /\ CharAt(s, i + 1) \in DigitChars
       /\ CharAt(s, i + 2) = ":" /\ CharAt(s, i + 3) \in DigitChars
       /\ CharAt(s, i + 4) \in DigitChars
    THEN 5
    ELSE IF CharAt(s, i) \in DigitChars /\ CharAt(s, i + 1) = ":"
            /\ CharAt(s, i + 2) \in DigitChars /\ CharAt(s, i + 3) \in DigitChars
    THEN 4
    ELSE 0

\* \d+(?:h|min) at index i: the length of the match, 0 if none.
AmountLength(s, i) ==
    LET n == RunLength(s, i, DigitChars)
    IN  IF n = 0 THEN 0
        ELSE IF CharAt(s, i + n) = "h" THEN n + 1
        ELSE IF SubSeq(s, Min2(i + n, Len(s) + 1), Min2(i + n + 2, Len(s))) = "min"
        THEN n + 3
        ELSE 0

\* The signs that may join a second clock time, and an amount, to the first
\* clock time of a time marker.
ClockSigns == {"-", "+"}

AmountSigns == {"+", "-"}

\* /@\d{1,2}:\d{2}(?:[-+]\d{1,2}:\d{2}|[+-]\d+(?:h|min))?/ at index i, with
\* the two sign classes given: the length of the match, 0 if none.
MarkerLengthWith(s, i, clockSigns, amountSigns) ==
    LET first == ClockLength(s, i + 1)
        j == i + 1 + first
        second == IF CharAt(s, j) \in clockSigns THEN ClockLength(s, j + 1) ELSE 0
        amount == IF CharAt(s, j) \in amountSigns THEN AmountLength(s, j + 1) ELSE 0
    IN  IF CharAt(s, i) # "@" \/ first = 0 THEN 0
        ELSE IF second > 0 THEN 1 + first + 1 + second
        ELSE IF amount > 0 THEN 1 + first + 1 + amount
        ELSE 1 + first

MarkerLength(s, i) == MarkerLengthWith(s, i, ClockSigns, AmountSigns)

\* originalLine.match(/.../g): the matches in order, scanning from i.
RECURSIVE TimeMarkers(_, _)
TimeMarkers(s, i) ==
    IF i > Len(s) THEN <<>>
    ELSE IF MarkerLength(s, i) > 0
    THEN <<SubSeq(s, i, i + MarkerLength(s, i) - 1)>>
             \o TimeMarkers(s, i + MarkerLength(s, i))
    ELSE TimeMarkers(s, i + 1)

\* The indices at which sub occurs in s.
Occurrences(s, sub) ==
    {i \in 1..(Len(s) - Len(sub) + 1) : SubSeq(s, i, i + Len(sub) - 1) = sub}

includes(s, sub) == Occurrences(s, sub) # {}

indexOf(s, sub) == SetMin(Occurrences(s, sub))

lastIndexOf(s, sub) == SetMax(Occurrences(s, sub))

FirstTimeMarker(timeMarkers) == timeMarkers[1]

\* timeMarkers[timeMarkers.length - 1]
LastTimeMarker(timeMarkers) == timeMarkers[Len(timeMarkers)]

generateUpdatedTaskLine(dragData, newStartTime) ==
    LET originalLine == dragData.originalLine
        newTimeStr == NewTimeStr(newStartTime, dragData.duration)
        timeMarkers == TimeMarkers(originalLine, 1)
        lastTimeMarker == LastTimeMarker(timeMarkers)
        lastIndex == lastIndexOf(originalLine, lastTimeMarker)
        updatedLine ==
            IF timeMarkers # <<>>
            THEN SubSeq(originalLine, 1, lastIndex - 1) \o newTimeStr
                     \o From(originalLine, lastIndex + Len(lastTimeMarker))
            ELSE originalLine
    IN  IF ~includes(updatedLine, newTimeStr) /\ updatedLine = originalLine
        THEN originalLine \o " " \o newTimeStr
        ELSE updatedLine

(***************************************************************************)
(* TimelineRenderer: the task line rewritten on an edit save and on a      *)
(* completion toggle.                                                      *)
(***************************************************************************)
TaskEditData(name, startTime, duration, dueTime) ==
    [name |-> name, startTime |-> startTime,
     duration |-> duration, dueTime |-> dueTime]

formatDurationForTaskLine(minutes) ==
    IF minutes < 60 THEN NumberToString(minutes) \o "min"
    ELSE IF minutes % 60 = 0 THEN NumberToString(minutes \div 60) \o "h"
    ELSE NumberToString(minutes \div 60) \o "h"
             \o NumberToString(minutes % 60) \o "min"

\* A duration that is truthy: defined and not 0.
Truthy(duration) == duration # Undefined /\ duration # 0

\* The time token of the new line: "" when editedData has no start time.
EditTimeToken(edited) ==
    IF edited.startTime # Undefined /\ Truthy(edited.duration)
    THEN "@" \o formatTime(edited.startTime) \o "+"
             \o formatDurationForTaskLine(edited.duration)
    ELSE IF edited.startTime # Undefined
    THEN "@" \o formatTime(edited.startTime)
    ELSE ""

\* The due token of the new line.  dueTime and startTime are two Date
\* objects of the modal, never the same object, so !== holds.
EditDueToken(edited) ==
    IF edited.dueTime # Undefined THEN "due:" \o formatTime(edited.dueTime)
    ELSE ""

\* newTaskLine of updateTaskFromEditData.
EditedTaskLine(originalTask, edited) ==
    "- [" \o (IF originalTask.completed THEN "x" ELSE " ") \o "] " \o edited.name
        \o (IF EditTimeToken(edited) # "" THEN " " \o EditTimeToken(edited) ELSE "")
        \o (IF EditDueToken(edited) # "" THEN " " \o EditDueToken(edited) ELSE "")

\* The layout variables of a state in which nothing has been rendered.
LayoutIdle ==
    /\ tasks = <<>>
    /\ taskLayout = <<>>
    /\ mergedRanges = <<>>
    /\ timeSlots = <<>>

(***************************************************************************)
(* SpecToken: each writer of a time token applied to bounded start times   *)
(* and durations, and parseTaskTime applied to the token written.          *)
(***************************************************************************)
\* 00:00, 00:05, 09:00, 09:05, 12:59, 23:59.
TokenStarts == {0, 5, 540, 545, 779, 1439}

\* No duration; minutes below an hour; whole hours; hours and minutes.
TokenDurations == {Undefined, 1, 30, 59, 60, 61, 90, 120, 150, 600}

TokenInit ==
    /\ LayoutIdle
    /\ RendererIdle
    /\ intervalMinutes = 30
    /\ pc = "input"
    /\ newTime \in TokenStarts
    /\ \E d \in TokenDurations, due \in TokenStarts :
           /\ data = DragEventData("- [ ] A", d)
           /\ editedData = TaskEditData("A", newTime, d, due)
    /\ adjustedTime = Undefined
    /\ newLine = Undefined
    /\ token = Undefined
    /\ timeInfo = Undefined

\* generateUpdatedTaskLine: newTimeStr.
WriteDropToken ==
    /\ pc = "input"
    /\ token' = NewTimeStr(newTime, data.duration)
    /\ pc' = "drop"
    /\ UNCHANGED <<layoutVars, rendererVars, data, newTime, adjustedTime, newLine,
                   editedData, timeInfo>>

\* updateTaskFromEditData: the start token.
WriteEditToken ==
    /\ pc = "input"
    /\ token' = EditTimeToken(editedData)
    /\ pc' = "edit"
    /\ UNCHANGED <<layoutVars, rendererVars, data, newTime, adjustedTime, newLine,
                   editedData, timeInfo>>

\* updateTaskFromEditData: the due token.
WriteDueToken ==
    /\ pc = "input"
    /\ token' = EditDueToken(editedData)
    /\ pc' = "due"
    /\ UNCHANGED <<layoutVars, rendererVars, data, newTime, adjustedTime, newLine,
                   editedData, timeInfo>>

\* parseTasksFromContent: TimeParser.parseTaskTime(timeStr.trim()).
ParseToken ==
    /\ pc \in {"drop", "edit", "due"}
    /\ timeInfo' = parseTaskTime(trim(token))
    /\ pc' = "parsed:" \o pc
    /\ UNCHANGED <<layoutVars, rendererVars, data, newTime, adjustedTime, newLine,
                   editedData, token>>

TokenNext == WriteDropToken \/ WriteEditToken \/ WriteDueToken \/ ParseToken

SpecToken == TokenInit /\ [][TokenNext]_vars

\* The token parsed back to the start time of day and the duration written.
ParsesBackTo(startTime, duration) ==
    /\ timeInfo # Null
    /\ timeInfo.startTime = startTime % MinutesPerDay
    /\ Truthy(duration) => timeInfo.duration = duration

\* C4: every time token the engine writes (the drop's @HH:mm, @HH:mm+Nh,
\* @HH:mm+Nmin; the edit save's @HH:mm+<formatDurationForTaskLine(d)> and
\* due:HH:mm) parses back through parseTaskTime to the same start time of day
\* and the same duration in minutes.
C4_WrittenTokensParseBack ==
    /\ pc = "parsed:drop" => ParsesBackTo(newTime, data.duration)
    /\ pc = "parsed:edit" => ParsesBackTo(editedData.startTime, editedData.duration)
    /\ pc = "parsed:due" =>
           timeInfo # Null /\ timeInfo.dueTime = editedData.dueTime

\* The part of C4 that holds: the tokens of a drop, the due token, and the
\* edit save's tokens of a duration below an hour or of whole hours.
C4_TokensOfOneUnitParseBack ==
    /\ pc = "parsed:drop" => ParsesBackTo(newTime, data.duration)
    /\ (pc = "parsed:edit"
          /\ (editedData.duration < 60 \/ editedData.duration % 60 = 0))
        => ParsesBackTo(editedData.startTime, editedData.duration)
    /\ pc = "parsed:due" =>
           timeInfo # Null /\ timeInfo.dueTime = editedData.dueTime

\* An edit save of 1h30min was written as "+1h30min" and parsed to null.
C4_HoursAndMinutesLost ==
    /\ pc = "parsed:edit"
    /\ editedData.duration = 90
    /\ token = "@09:00+1h30min"
    /\ timeInfo = Null

(***************************************************************************)
(* SpecDrop: handleTaskDrop applied to the drag data of bounded task lines *)
(* and to bounded dropped instants, under each interval of the settings.   *)
(***************************************************************************)
\* Lines of timed tasks: one token; a duration in minutes and in hours; a
\* due token after or alone; a range followed by a bare start; a token with
\* a "-2h" tail and one with a "+1:30" tail, which no grammar rule of the
\* parser accepts; the same token text twice; a cross-midnight range before
\* a tag; a label with an "@" that starts no time.
DropLines ==
    {"- [ ] A @09:00",
     "- [ ] A @9:00+90min",
     "- [x] A @09:00+2h due:12:00",
     "- [ ] A @10:00-11:00 @12:00",
     "- [ ] A due:13:00",
     "- [ ] A @08:00 @09:00-2h",
     "- [ ] A @07:00 @08:00+1:30 x",
     "- [ ] A @9:00 B @9:00",
     "- [ ] A @22:00-01:00 #t1",
     "- [ ] mail a@b @14:30+45min"}

\* Every minute of the hours 09 and 23 of the day and of hour 00 of the
\* next day.
DropTimes == {h * 60 + m : h \in {9, 23, 24}, m \in 0..59}

DropInit ==
    /\ LayoutIdle
    /\ RendererIdle
    /\ intervalMinutes \in IntervalChoices
    /\ pc = "input"
    /\ \E line \in DropLines :
           data = DragEventData(ParseLine(line).originalLine,
                                ParseLine(line).duration)
    /\ newTime \in DropTimes
    /\ adjustedTime = Undefined
    /\ newLine = Undefined
    /\ editedData = Undefined
    /\ token = Undefined
    /\ timeInfo = Undefined

\* handleTaskDrop(data, newTime): newLine is handed to onTaskUpdate.
handleTaskDrop ==
    /\ pc = "input"
    /\ adjustedTime' = roundToInterval(newTime, intervalMinutes)
    /\ newLine' = generateUpdatedTaskLine(data, adjustedTime')
    /\ pc' = "done"
    /\ UNCHANGED <<layoutVars, rendererVars, data, newTime, editedData, token, timeInfo>>

DropNext == handleTaskDrop

SpecDrop == DropInit /\ [][DropNext]_vars

\* C8: the time handleTaskDrop writes is the multiple of intervalMinutes
\* nearest to the dropped instant; an instant halfway between two grid points
\* goes to the later one, also into the next hour or the next day.
C8_DropRoundsToNearest ==
    pc = "done" =>
        /\ adjustedTime % intervalMinutes = 0
        /\ 2 * (adjustedTime - newTime) <= intervalMinutes
        /\ 2 * (newTime - adjustedTime) < intervalMinutes
        /\ includes(newLine, "@" \o formatTime(adjustedTime))

\* 23:30 dropped under the 60 minute interval: halfway, written as 00:00 of
\* the next day.
C8_Witness ==
    /\ pc = "done"
    /\ intervalMinutes = 60
    /\ newTime = 23 * 60 + 30
    /\ adjustedTime = MinutesPerDay
    /\ includes(newLine, "@00:00")

\* The matches of the time marker pattern with the sign classes given, as
\* index and length, scanning from i.
RECURSIVE MarkerSpans(_, _, _, _)
MarkerSpans(s, i, clockSigns, amountSigns) ==
    IF i > Len(s) THEN <<>>
    ELSE LET n == MarkerLengthWith(s, i, clockSigns, amountSigns)
         IN  IF n > 0
             THEN <<[index |-> i, length |-> n]>>
                      \o MarkerSpans(s, i + n, clockSigns, amountSigns)
             ELSE MarkerSpans(s, i + 1, clockSigns, amountSigns)

\* newLine is the original line with its last marker replaced by the new
\* token, or with the new token appended when it has no marker; the new
\* token holds the rounded time and parses to the duration of the task.
ReplacesLastMarker(clockSigns, amountSigns) ==
    LET originalLine == data.originalLine
        spans == MarkerSpans(originalLine, 1, clockSigns, amountSigns)
        last == spans[Len(spans)]
        newToken == NewTimeStr(adjustedTime, data.duration)
    IN  /\ parseTaskTime(newToken).startTime = adjustedTime % MinutesPerDay
        /\ Truthy(data.duration) =>
               parseTaskTime(newToken).duration = data.duration
        /\ IF spans = <<>> THEN newLine = originalLine \o " " \o newToken
           ELSE newLine = SubSeq(originalLine, 1, last.index - 1) \o newToken
                              \o From(originalLine, last.index + last.length)

slotHeight == 60

\* sortTasksByTime: by start, else due time; tasks without a time go last
\* and the sort is stable.
sortTasksByTime(ts) ==
    StableSort(ts, [i \in 1..Len(ts) |->
                      IF HasTime(ts[i]) THEN TaskStart(ts[i])
                      ELSE 4 * MinutesPerDay])

\* tasks.filter(task => task.startTime || task.dueTime)
TasksWithTime(ts) == SelectSeq(ts, HasTime)

\* Pixels of a number of minutes: minutes / intervalMinutes * slotHeight,
\* exact for the intervals of the settings.
Pixels(minutes, interval) == (minutes * slotHeight) \div interval

\* calculateTimePosition: -1 when the time is out of the extended range.
calculateTimePosition(time, slots, interval) ==
    IF Len(slots) = 0 THEN 0 - 1
    ELSE IF time < slots[1] - 30 \/ time > slots[Len(slots)] + 30 THEN 0 - 1
    ELSE Pixels(time - slots[1], interval)

\* The % of JavaScript: the sign of the result is that of the dividend.
Remainder(a, b) == IF a >= 0 THEN a % b ELSE 0 - ((0 - a) % b)

\* The loops that look for the slot that holds a time: its index, 0 if none.
ActualSlotIndex(time, slots, interval) ==
    LET holds == {i \in 1..Len(slots) :
                    /\ time >= slots[i]
                    /\ time < (IF i < Len(slots) THEN slots[i + 1]
                               ELSE slots[i] + interval)}
    IN  IF holds = {} THEN 0 ELSE SetMin(holds)

\* The offsets measured from the slot elements of a timeline: each slot is
\* slotHeight high.
MeasureSlotOffsets(slots) == [i \in 1..Len(slots) |-> (i - 1) * slotHeight]

\* calculateVerticalTaskPosition with the slot offsets it came to use.
calculateVerticalTaskPosition(startTime, endTime, slots, interval, visibleSlotOffsets) ==
    LET startOffset == startTime - slots[1]
        startSlotIndex == startOffset \div interval
        startPositionInSlot == Pixels(Remainder(startOffset, interval), interval)
        endOffset == endTime - slots[1]
        endSlotIndex == endOffset \div interval
        endPositionInSlot == Pixels(Remainder(endOffset, interval), interval)
        fallbackTop == startSlotIndex * slotHeight + startPositionInSlot
        fallbackHeight == (endSlotIndex - startSlotIndex) * slotHeight
                              + (endPositionInSlot - startPositionInSlot)
        actualStartSlotIndex == ActualSlotIndex(startTime, slots, interval)
        actualEndSlotIndex == ActualSlotIndex(endTime, slots, interval)
        usesOffsets == /\ Len(visibleSlotOffsets) > 0
                       /\ actualStartSlotIndex >= 1
                       /\ actualStartSlotIndex <= Len(visibleSlotOffsets)
        offsetTop == visibleSlotOffsets[actualStartSlotIndex]
                         + Pixels(startTime - slots[actualStartSlotIndex], interval)
        endTop == visibleSlotOffsets[actualEndSlotIndex]
                      + Pixels(endTime - slots[actualEndSlotIndex], interval)
        top == IF usesOffsets THEN offsetTop ELSE fallbackTop
        height == IF ~usesOffsets THEN fallbackHeight
                  ELSE IF actualEndSlotIndex >= 1
                          /\ actualEndSlotIndex <= Len(visibleSlotOffsets)
                  THEN Max2(20, endTop - top)
                  ELSE slotHeight
    IN  IF Len(slots) = 0 THEN Null
        ELSE [top |-> Max2(0, top), height |-> Max2(20, height)]

\* window.clearInterval(id), guarded by if (this.updateTimer).
ClearIntervalNever(timers, id) == timers

ClearInterval(timers, id) == timers \ {id}

\* String.prototype.replace(oldLine, newLine): the first occurrence.
ReplaceFirst(content, oldLine, newTaskLine) ==
    IF ~includes(content, oldLine) THEN content
    ELSE SubSeq(content, 1, indexOf(content, oldLine) - 1) \o newTaskLine
             \o From(content, indexOf(content, oldLine) + Len(oldLine))

\* toggleTaskCompletion: newTaskLine.
ToggledLine(task) ==
    LET line == task.originalLine
    IN  (IF task.completed THEN "- [ ]" ELSE "- [x]")
            \o From(line, CheckboxAt(line) + 3)

\* An updateOptions that takes every content for none.
HasContentNever(content) == FALSE

\* A string that is truthy.  currentContent is read only after this test,
\* so that undefined is "" here.
HasContent(content) == content # ""

\* getCurrentTimeSlots
getCurrentTimeSlots(content, interval) ==
    IF ~HasContent(content) THEN <<>>
    ELSE generateDynamicTimeSlots(
             TasksWithTime(parseTasksFromContent(content)), interval)

(***************************************************************************)
(* Spec: one TimelineRenderer from its construction to its unload.  A      *)
(* render pass runs to its end, the set-up of the drag handler included;   *)
(* the creation of the task elements waits in frames until the browser     *)
(* runs it.                                                                *)
(***************************************************************************)
\* The re-renders after the first render that a behaviour may hold.
MaxRenders == 1

\* The text of a timeline block: two tasks; a due time only; no task line;
\* nothing.
InitialContents ==
    {"- [ ] A @09:00\n- [x] B @09:30+1h",
     "- [ ] A due:10:00",
     "# plan\nnote",
     ""}

\* The wall clock at a render or at a tick of the timer: 09:40 and 20:00.
NowChoices == {580, 1200}

\* new Date(): the wall clock does not run backwards.
NewDate == {t \in NowChoices : t >= wallClock}

\* render(content) under the options given, at the time given, when no
\* call of the pass throws: the tasks parsed and sorted, then
\* createVerticalTimeline for the tasks that have a time and their ticks, then
\* the drag handler and its drop zones.
RenderCompletes(content, now, interval, dragging) ==
    \E sortedTasks \in {sortTasksByTime(parseTasksFromContent(content))} :
    \E tasksWithTime \in {TasksWithTime(sortedTasks)} :
    \E slots \in {generateDynamicTimeSlots(tasksWithTime, interval)} :
    \E position \in {calculateTimePosition(now, slots, interval)} :
    \E layout \in {calculateOverlapLayout(tasksWithTime)} :
        LET hasGrid == Len(tasksWithTime) > 0 /\ Len(slots) > 0
            startsTimer == hasGrid /\ position >= 0
        IN  /\ currentContent' = content
            /\ pass' = pass + 1
            /\ taskElements' = <<>>
            /\ tasks' = sortedTasks
            /\ mergedRanges' =
                   IF Len(tasksWithTime) > 0
                   THEN mergeTimeRanges(TaskTimeRanges(tasksWithTime, 1))
                   ELSE <<>>
            /\ timeSlots' = IF Len(tasksWithTime) > 0 THEN slots ELSE <<>>
            /\ taskLayout' = IF hasGrid THEN layout ELSE <<>>
            /\ slotData' = (hasGrid /\ dragHandler # Null)
            /\ frames' = IF hasGrid
                         THEN Append(frames, [pass |-> pass + 1,
                                              tasks |-> tasksWithTime,
                                              timeSlots |-> slots,
                                              taskLayout |-> layout])
                         ELSE frames
            /\ IF startsTimer
               THEN /\ currentTimeIndicator' =
                           [pass |-> pass + 1, top |-> position,
                            display |-> "block"]
                    /\ activeTimers' = ClearInterval(activeTimers, updateTimer)
                                           \cup {timerCount + 1}
                    /\ updateTimer' = timerCount + 1
                    /\ timerCount' = timerCount + 1
               ELSE UNCHANGED <<currentTimeIndicator, activeTimers,
                                updateTimer, timerCount>>
            /\ dragHandler' = IF Len(sortedTasks) > 0 /\ dragging
                              THEN [intervalMinutes |-> interval]
                              ELSE dragHandler
            /\ dropZones' = (hasGrid /\ dragging)
            /\ errorShown' = FALSE
            /\ UNCHANGED <<cachedSlotOffsets, positioned, uncaughtError>>

\* render(content) when a call in its try block throws once the container is
\* emptied, before the timeline is built: the catch block shows the error.
RenderThrows(content) ==
    /\ currentContent' = content
    /\ pass' = pass + 1
    /\ taskElements' = <<>>
    /\ tasks' = <<>>
    /\ mergedRanges' = <<>>
    /\ timeSlots' = <<>>
    /\ taskLayout' = <<>>
    /\ slotData' = FALSE
    /\ dropZones' = FALSE
    /\ errorShown' = TRUE
    /\ UNCHANGED <<frames, currentTimeIndicator, activeTimers, updateTimer,
                   timerCount, dragHandler, cachedSlotOffsets, positioned,
                   uncaughtError>>

\* render(content)
RenderPass(content, now, interval, dragging) ==
    \/ RenderCompletes(content, now, interval, dragging)
    \/ RenderThrows(content)

Init ==
    /\ LayoutIdle
    /\ TokenIdle
    /\ RendererCreated
    /\ intervalMinutes \in IntervalChoices
    /\ enableDragging \in BOOLEAN
    /\ pc = "created"

\* The code block processor: renderer.render(source).
Render ==
    /\ pc = "created"
    /\ \E content \in InitialContents, now \in NewDate :
           /\ RenderPass(content, now, intervalMinutes, enableDragging)
           /\ wallClock' = now
    /\ pc' = "rendered"
    /\ UNCHANGED <<intervalMinutes, enableDragging, renders, tokenVars,
                   updateEvents, updateCalls>>

\* The requestAnimationFrame callback of createVerticalTimeline:
\* createVerticalTaskWhole for every entry of the layout.  The first call of
\* calculateVerticalTaskPosition measures the slot offsets when none are
\* cached; the elements go to the overlay of the pass that asked for them.
\* A measurement of a slot may throw: the callback runs outside the try block
\* of render, so that the failure ends the callback and nothing catches it.
Frame ==
    /\ frames # <<>>
    /\ LET frame == Head(frames)
           offsets == IF cachedSlotOffsets = <<>>
                      THEN MeasureSlotOffsets(frame.timeSlots)
                      ELSE cachedSlotOffsets
           elements ==
               [i \in 1..Len(frame.taskLayout) |->
                   LET task == frame.tasks[frame.taskLayout[i].task]
                       taskPosition ==
                           calculateVerticalTaskPosition(
                               TaskStart(task), TaskEnd(task), frame.timeSlots,
                               intervalMinutes, offsets)
                   IN  [task |-> task,
                        top |-> taskPosition.top,
                        height |-> taskPosition.height,
                        draggable |-> enableDragging /\ dragHandler # Null]]
       IN  /\ frames' = Tail(frames)
           /\ \/ /\ cachedSlotOffsets' = offsets
                 /\ positioned' = [pass |-> frame.pass,
                                   timeSlots |-> frame.timeSlots,
                                   visibleSlotOffsets |-> offsets]
                 /\ taskElements' = IF frame.pass = pass THEN elements
                                    ELSE taskElements
                 /\ UNCHANGED uncaughtError
              \/ /\ cachedSlotOffsets = <<>>
                 /\ uncaughtError' = TRUE
                 /\ UNCHANGED <<cachedSlotOffsets, positioned, taskElements>>
    /\ UNCHANGED <<layoutVars, pc, tokenVars, currentContent, enableDragging,
                   dragHandler, pass, slotData, dropZones, updateTimer,
                   activeTimers, timerCount, currentTimeIndicator, renders,
                   errorShown, updateEvents, updateCalls, wallClock>>

\* containerEl.dispatchEvent of a timeline-content-updated event: none.
DispatchEventNever(events, oldLine, newTaskLine) == events

\* containerEl.dispatchEvent of a timeline-content-updated event.
DispatchEvent(events, oldLine, newTaskLine) ==
    Append(events, [oldLine |-> oldLine, newLine |-> newTaskLine])

\* handleTaskUpdate(oldLine, newTaskLine) of a renderer with content.
handleTaskUpdate(oldLine, newTaskLine, now) ==
    /\ RenderPass(ReplaceFirst(currentContent, oldLine, newTaskLine), now,
                  intervalMinutes, enableDragging)
    /\ renders' = renders + 1
    /\ updateEvents' = DispatchEvent(updateEvents, oldLine, newTaskLine)
    /\ wallClock' = now
    /\ UNCHANGED <<intervalMinutes, enableDragging, pc>>

\* The instant of a slot as a drop target: its data-time attribute, else
\* its text, which is the label of the slot.
getTimeFromDropTarget(slot) ==
    IF slotData THEN slot ELSE parseTime(trim(formatTime(slot)))

\* The slots a task element is dropped on: the first, the middle and the
\* last slot of the timeline.
DropTargets(slots) ==
    {k \in {1, (Len(slots) + 1) \div 2, Len(slots)} : k \in DOMAIN slots}

\* A task element is dropped on a slot: the drop listener with the drag
\* data of the element, handleTaskDrop, and the onTaskUpdate callback.
Drop ==
    /\ pc = "rendered"
    /\ renders < MaxRenders
    /\ dropZones
    /\ \E e \in DOMAIN taskElements, k \in DropTargets(timeSlots),
          now \in NewDate :
           /\ taskElements[e].draggable
           /\ handleTaskUpdate(
                  taskElements[e].task.originalLine,
                  generateUpdatedTaskLine(
                      DragEventData(taskElements[e].task.originalLine,
                                    taskElements[e].task.duration),
                      roundToInterval(getTimeFromDropTarget(timeSlots[k]),
                                      dragHandler.intervalMinutes)),
                  now)
    /\ UNCHANGED tokenVars
    /\ updateCalls' = updateCalls + 1

\* The dot of a task element is clicked: toggleTaskCompletion.
Toggle ==
    /\ pc = "rendered"
    /\ renders < MaxRenders
    /\ \E e \in DOMAIN taskElements, now \in NewDate :
           handleTaskUpdate(taskElements[e].task.originalLine,
                            ToggledLine(taskElements[e].task), now)
    /\ UNCHANGED tokenVars
    /\ updateCalls' = updateCalls + 1

\* What the edit modal of a task may save: the task as it is, and the task
\* moved to 15:00 for two hours.
EditChoices(task) ==
    {TaskEditData(task.name, task.startTime, task.duration, task.dueTime),
     TaskEditData(task.name, 15 * 60, 120, task.dueTime)}

\* The edit modal of a task element is saved: updateTaskFromEditData.
EditSave ==
    /\ pc = "rendered"
    /\ renders < MaxRenders
    /\ \E e \in DOMAIN taskElements, now \in NewDate :
           \E edited \in EditChoices(taskElements[e].task) :
               handleTaskUpdate(taskElements[e].task.originalLine,
                                EditedTaskLine(taskElements[e].task, edited),
                                now)
    /\ UNCHANGED tokenVars
    /\ updateCalls' = updateCalls + 1

\* saveSettings, refreshAllTimelines: updateOptions with the settings saved.
\* The settings tab saves after a change of one setting, which may be a
\* setting that the renderer does not read.
UpdateOptions ==
    /\ pc = "rendered"
    /\ renders < MaxRenders
    /\ \E interval \in IntervalChoices, dragging \in BOOLEAN,
          now \in NewDate :
           /\ interval = intervalMinutes \/ dragging = enableDragging
           /\ intervalMinutes' = interval
           /\ enableDragging' = dragging
           /\ wallClock' = now
           /\ IF HasContent(currentContent)
              THEN RenderPass(currentContent, now, interval, dragging)
              ELSE UNCHANGED <<tasks, taskLayout, mergedRanges, timeSlots,
                               currentContent, dragHandler, cachedSlotOffsets,
                               frames, pass, slotData, dropZones, taskElements,
                               positioned, updateTimer, activeTimers,
                               timerCount, currentTimeIndicator, errorShown,
                               uncaughtError>>
    /\ renders' = renders + 1
    /\ UNCHANGED <<pc, tokenVars, updateEvents, updateCalls>>

\* updateCurrentTimeIndicator: the indicator element at the position given.
updateCurrentTimeIndicator(indicator, position) ==
    IF position >= 0
    THEN [indicator EXCEPT !.top = position, !.display = "block"]
    ELSE [indicator EXCEPT !.display = "none"]

\* An interval of the window fires: updateCurrentTimeIndicator.
TimerTick ==
    /\ activeTimers # {}
    /\ \E now \in NewDate :
       \E slots \in {getCurrentTimeSlots(currentContent, intervalMinutes)} :
       \E position \in {calculateTimePosition(now, slots, intervalMinutes)} :
           IF currentTimeIndicator = Null
           THEN UNCHANGED <<currentTimeIndicator, wallClock>>
           ELSE /\ wallClock' = now
                /\ currentTimeIndicator' =
                       updateCurrentTimeIndicator(currentTimeIndicator,
                                                  position)
    /\ UNCHANGED <<layoutVars, pc, tokenVars, currentContent, enableDragging,
                   dragHandler, cachedSlotOffsets, frames, pass, slotData,
                   dropZones, taskElements, positioned, updateTimer,
                   activeTimers, timerCount, renders, errorShown,
                   uncaughtError, updateEvents, updateCalls>>

\* onunload
Unload ==
    /\ pc \in {"created", "rendered"}
    /\ activeTimers' = ClearInterval(activeTimers, updateTimer)
    /\ updateTimer' = Undefined
    /\ pc' = "unloaded"
    /\ UNCHANGED <<layoutVars, tokenVars, currentContent, enableDragging,
                   dragHandler, cachedSlotOffsets, frames, pass, slotData,
                   dropZones, taskElements, positioned, timerCount,
                   currentTimeIndicator, renders, errorShown, uncaughtError,
                   updateEvents, updateCalls, wallClock>>

Next ==
    \/ Render
    \/ Frame
    \/ Drop
    \/ Toggle
    \/ EditSave
    \/ UpdateOptions
    \/ TimerTick
    \/ Unload

Spec == Init /\ [][Next]_vars

\* C3: after any sequence of render passes of one renderer, the slot-offset
\* table that calculateVerticalTaskPosition uses in the current pass was
\* measured from the slots of the current pass; a table measured in an
\* earlier pass is never used to position tasks.
C3_OffsetsMeasuredInCurrentPass ==
    (positioned # Null /\ positioned.pass = pass) =>
        positioned.visibleSlotOffsets = MeasureSlotOffsets(timeSlots)

\* C10: after onunload no interval started by the renderer is still set,
\* and at any time at most one is set: the one updateTimer holds.
C10_NoTimerAfterUnload ==
    /\ pc = "unloaded" => activeTimers = {}
    /\ Cardinality(activeTimers) <= 1
    /\ activeTimers \subseteq {updateTimer}

\* A renderer unloaded after a re-render that started a second interval.
C10_Witness ==
    /\ pc = "unloaded"
    /\ renders >= 1
    /\ timerCount >= 2
    /\ activeTimers = {}

(***************************************************************************)
(* SpecNow: addCurrentTimeIndicator and then updateCurrentTimeIndicator    *)
(* for a list of ticks and wall-clock times around its ends.               *)
(***************************************************************************)
\* Four ticks from 09:00 on.
NowTicks(interval) == [k \in 1..4 |-> 540 + (k - 1) * interval]

\* Times around the first tick, the last tick and the end of the last slot.
NowTimes(slots, interval) ==
    UNION {{t - 31, t - 30, t - 1, t, t + 1, t + 29, t + 30, t + 31} :
              t \in {slots[1], slots[Len(slots)],
                     slots[Len(slots)] + interval}}

NowInit ==
    /\ tasks = <<>>
    /\ taskLayout = <<>>
    /\ mergedRanges = <<>>
    /\ intervalMinutes \in IntervalChoices
    /\ timeSlots = NowTicks(intervalMinutes)
    /\ TokenIdle
    /\ RendererIdle
    /\ pc = "input"

\* addCurrentTimeIndicator(timelineGrid, timeSlots)
AddIndicator ==
    /\ pc = "input"
    /\ \E now \in NowTimes(timeSlots, intervalMinutes) :
       \E position \in {calculateTimePosition(now, timeSlots, intervalMinutes)} :
           /\ wallClock' = now
           /\ IF position < 0 THEN UNCHANGED currentTimeIndicator
              ELSE currentTimeIndicator' =
                       [pass |-> pass, top |-> position, display |-> "block"]
    /\ pc' = "added"
    /\ UNCHANGED <<layoutVars, tokenVars, currentContent, enableDragging,
                   dragHandler, cachedSlotOffsets, frames, pass, slotData,
                   dropZones, taskElements, positioned, updateTimer,
                   activeTimers, timerCount, renders, errorShown,
                   uncaughtError, updateEvents, updateCalls>>

\* updateCurrentTimeIndicator() at a later time, for the same ticks.
RefreshIndicator ==
    /\ pc \in {"added", "refreshed"}
    /\ \E now \in NowTimes(timeSlots, intervalMinutes) :
       \E position \in {calculateTimePosition(now, timeSlots, intervalMinutes)} :
           /\ now > wallClock
           /\ wallClock' = now
           /\ IF currentTimeIndicator = Null
              THEN UNCHANGED currentTimeIndicator
              ELSE currentTimeIndicator' =
                       updateCurrentTimeIndicator(currentTimeIndicator,
                                                  position)
    /\ pc' = "refreshed"
    /\ UNCHANGED <<layoutVars, tokenVars, currentContent, enableDragging,
                   dragHandler, cachedSlotOffsets, frames, pass, slotData,
                   dropZones, taskElements, positioned, updateTimer,
                   activeTimers, timerCount, renders, errorShown,
                   uncaughtError, updateEvents, updateCalls>>

NowNext == AddIndicator \/ RefreshIndicator

SpecNow == NowInit /\ [][NowNext]_vars

\* The range of C12: from 30 minutes before the first tick to 30 minutes
\* after the end of the last slot.
NowInRange ==
    /\ timeSlots[1] - 30 <= wallClock
    /\ wallClock <= timeSlots[Len(timeSlots)] + intervalMinutes + 30

\* C12: after the indicator is added and after every refresh, the indicator
\* is shown exactly when now is in
\* [ticks.first - 30min, ticks.last + intervalMinutes + 30min].
C12_ShownExactlyInRange ==
    pc \in {"added", "refreshed"} =>
        ((currentTimeIndicator # Null /\ currentTimeIndicator.display = "block")
             <=> NowInRange)

\* C11: no failure of a render pass, the deferred step that creates and
\* positions the task elements included, escapes uncaught; every failure is
\* caught inside render and shown as the inline error state.
C11_NoFailureEscapes == uncaughtError = FALSE

\* C13: a tick of the timer changes only the indicator element that the
\* current render created; it never moves, shows or hides the element of an
\* earlier render.
C13_TickActsOnCurrentIndicator ==
    [][currentTimeIndicator' # currentTimeIndicator =>
           currentTimeIndicator'.pass = pass']_vars

\* C14: the deferred step of a pass runs before a later pass begins: when a
\* requestAnimationFrame callback runs, it is that of the last pass.
C14_DeferredStepRunsInItsPass ==
    [][(frames # <<>> /\ frames' = Tail(frames)) => Head(frames).pass = pass]_vars

ReadmeTokens(now) ==
    {<<"@14:30", 870>>,
     <<"@2:30 PM", 870>>,
     <<"@" \o XiaWu \o "2" \o Han.dian \o "30" \o Han.fen, 870>>,
     <<"@30" \o FenZhong \o Han.hou, now + 30>>,
     <<"@in 1 hour", now + 60>>}

\* Tokens of the other forms: ranges, one of them across midnight; a start
\* with a duration of hours, of minutes and of none; a due time.
OtherTokens ==
    {"@9:00-10:00", "@10:00-11:00", "@22:00-01:00", "@12:00", "@09:00+2h",
     "@9:00+90min", "@09:00+0h", "due:16:00"}

ParseTokens(now) == {r[1] : r \in ReadmeTokens(now)} \cup OtherTokens

\* A task line with one token, and with two.
ParseInputs(now) ==
    {"- [ ] A " \o t : t \in ParseTokens(now)}
        \cup {"- [ ] A " \o t \o " " \o u :
                 t \in ParseTokens(now), u \in ParseTokens(now)}

ParseInit ==
    /\ LayoutIdle
    /\ TokenIdle
    /\ intervalMinutes = 30
    /\ enableDragging = FALSE
    /\ dragHandler = Null
    /\ cachedSlotOffsets = <<>>
    /\ frames = <<>>
    /\ pass = 0
    /\ slotData = FALSE
    /\ dropZones = FALSE
    /\ taskElements = <<>>
    /\ positioned = Null
    /\ updateTimer = Undefined
    /\ activeTimers = {}
    /\ timerCount = 0
    /\ currentTimeIndicator = Null
    /\ renders = 0
    /\ errorShown = FALSE
    /\ uncaughtError = FALSE
    /\ updateEvents = <<>>
    /\ updateCalls = 0
    /\ wallClock \in NowChoices
    /\ currentContent \in ParseInputs(wallClock)
    /\ pc = "input"

\* render: const tasks = this.parseTasksFromContent(content)
ParseContent ==
    /\ pc = "input"
    /\ tasks' = parseTasksFromContent(currentContent)
    /\ pc' = "parsed"
    /\ UNCHANGED <<intervalMinutes, taskLayout, mergedRanges, timeSlots,
                   tokenVars, rendererVars>>

ParseNext == ParseContent

SpecParse == ParseInit /\ [][ParseNext]_vars

\* C16: every task built from a line with time tokens that has both a start
\* and an end has end >= start and duration = end - start in minutes.
C16_DurationMatchesStartAndEnd ==
    pc = "parsed" =>
        \A i \in DOMAIN tasks :
            (tasks[i].startTime # Undefined /\ tasks[i].endTime # Undefined) =>
                /\ tasks[i].endTime >= tasks[i].startTime
                /\ tasks[i].duration = tasks[i].endTime - tasks[i].startTime

\* C17: a task line whose time is written in a format the README lists is
\* given the start time that format names.
C17_ReadmeFormatsGiveStart ==
    pc = "parsed" =>
        \A r \in ReadmeTokens(wallClock) :
            currentContent = "- [ ] A " \o r[1] =>
                /\ Len(tasks) = 1
                /\ tasks[1].startTime = r[2]

(***************************************************************************)
(* SpecGrammar: parseTime and parseTaskTime applied to tokens written from *)
(* bounded times, amounts and units, and to tokens no rule accepts.        *)
(***************************************************************************)
\* 00:00, 00:01, 01:00, 09:00, 14:30, 22:00, 23:59.
GrammarTimes == {0, 1, 60, 540, 870, 1320, 1439}

GrammarAmounts == {0, 1, 2, 30, 90, 600, 1500}

GrammarUnits == {"h", "min", XiaoShi, FenZhong}

\* A time as HH:mm and, before 10:00, as H:mm.
ClockTexts(time) ==
    {formatTime(time),
     NumberToString(getHours(time)) \o ":" \o padStart2(NumberToString(getMinutes(time)))}

GrammarInput(form, text, start, end, amount, unit) ==
    [form |-> form, token |-> text, start |-> start, end |-> end,
     amount |-> amount, unit |-> unit]

\* "@s-e" for the texts st of s and et of e.
RangeInputsOf(s, e) ==
    {GrammarInput("range", "@" \o st \o "-" \o et, s, e, Undefined, "") :
         st \in ClockTexts(s), et \in ClockTexts(e)}

RangeInputs ==
    UNION {RangeInputsOf(s, e) : s \in GrammarTimes, e \in GrammarTimes}

\* "@s+N<unit>"
DurationInputs ==
    {GrammarInput("duration",
                  "@" \o formatTime(s) \o "+" \o NumberToString(n) \o u,
                  s, Undefined, n, u) :
         s \in GrammarTimes, n \in GrammarAmounts, u \in GrammarUnits}

\* Hours above 23 and minutes above 59.
BadHours == {24, 25, 99}

BadMinutes == {60, 99}

\* Clock texts h:mm whose hour or minute is out of range.
BadClocks ==
    {NumberToString(h) \o ":" \o padStart2(NumberToString(m)) :
         h \in BadHours, m \in {0, 30}}
        \cup {NumberToString(h) \o ":" \o NumberToString(m) :
                 h \in {0, 9, 23}, m \in BadMinutes}

\* 12-hour texts whose hour is out of range after the AM/PM conversion, or
\* whose minute is out of range.
BadClocks12 ==
    {c \o p : c \in BadClocks, p \in {" AM", " PM", "am", "pm"}}
        \cup {NumberToString(h) \o ":30" \o p :
                 h \in {13, 18, 23}, p \in {" PM", "pm"}}

\* Chinese texts whose hour is out of range after the period conversion, or
\* whose minute is out of range.
BadChinese ==
    {p \o NumberToString(h) \o d \o t :
         p \in {"", ShangWu, XiaWu, LingChen, ZhongWu, WanShang},
         h \in BadHours, d \in {Han.dian, Han.shi},
         t \in {"", "30", "30" \o Han.fen}}
        \cup {p \o NumberToString(h) \o Han.dian \o NumberToString(m) \o t :
                 p \in {"", ShangWu, XiaWu, WanShang}, h \in {2, 11},
                 m \in BadMinutes, t \in {"", Han.fen}}

\* Texts no grammar rule matches.
NoRuleTexts ==
    {"banana", "14h30", "14:3", "14:305", ":30", "noon", "1430", "14:30 XM",
     "9" \o Han.fen, XiaWu, "in an hour", "30" \o FenZhong}

BadTexts == BadClocks \cup BadClocks12 \cup BadChinese \cup NoRuleTexts

\* A bad text alone and in each place of a token where a time is written.
BadInputs ==
    {GrammarInput("bad", t, Undefined, Undefined, Undefined, "") :
         t \in BadTexts
             \cup {"@" \o b : b \in BadTexts}
             \cup {"due:" \o b : b \in BadTexts}
             \cup {"@" \o b \o "-10:00" : b \in BadTexts}
             \cup {"@10:00-" \o b : b \in BadTexts}
             \cup {"@" \o b \o "+2h" : b \in BadTexts}
             \cup {"", "@", "due:", "25:99", "@banana"}}

GrammarInputs == RangeInputs \cup DurationInputs \cup BadInputs

GrammarInit ==
    /\ LayoutIdle
    /\ RendererIdle
    /\ intervalMinutes = 30
    /\ pc = "input"
    /\ data \in GrammarInputs
    /\ token = data.token
    /\ newTime = Undefined
    /\ adjustedTime = Undefined
    /\ newLine = Undefined
    /\ editedData = Undefined
    /\ timeInfo = Undefined

\* TimeParser.parseTime(token)
CallParseTime ==
    /\ pc = "input"
    /\ newTime' = parseTime(token)
    /\ pc' = "parseTime"
    /\ UNCHANGED <<layoutVars, rendererVars, data, adjustedTime, newLine,
                   editedData, token, timeInfo>>

\* TimeParser.parseTaskTime(token)
CallParseTaskTime ==
    /\ pc = "input"
    /\ timeInfo' = parseTaskTime(token)
    /\ pc' = "parseTaskTime"
    /\ UNCHANGED <<layoutVars, rendererVars, data, newTime, adjustedTime,
                   newLine, editedData, token>>

GrammarNext == CallParseTime \/ CallParseTaskTime

SpecGrammar == GrammarInit /\ [][GrammarNext]_vars

\* C18: parseTime and parseTaskTime return null for every token whose hour
\* or minute is out of range in a 24-hour, 12-hour or Chinese form, for
\* every token that matches no grammar rule, and for the empty string.
C18_BadTokensGiveNull ==
    data.form = "bad" =>
        /\ pc = "parseTime" => newTime = Undefined
        /\ pc = "parseTaskTime" => timeInfo = Null

\* parseTaskTime was handed "@" followed by the out-of-range 下午25点30分.
C18_Witness ==
    /\ pc = "parseTaskTime"
    /\ token = "@" \o XiaWu \o "25" \o Han.dian \o "30" \o Han.fen
    /\ timeInfo = Null

\* C19: parseTaskTime("@s-e") returns start = s, end = e on the day of s
\* when e >= s and on the next day when e < s, and duration = end - start,
\* which lies in [0, 1439].
C19_RangeToken ==
    (pc = "parseTaskTime" /\ data.form = "range") =>
        /\ timeInfo # Null
        /\ timeInfo.startTime = data.start
        /\ timeInfo.endTime =
               IF data.end >= data.start THEN data.end
               ELSE data.end + MinutesPerDay
        /\ timeInfo.duration = timeInfo.endTime - timeInfo.startTime
        /\ timeInfo.duration \in 0..1439
        /\ timeInfo.dueTime = Undefined

\* "@22:00-01:00" was parsed: 180 minutes that end on the next day.
C19_Witness ==
    /\ pc = "parseTaskTime"
    /\ token = "@22:00-01:00"
    /\ timeInfo # Null
    /\ timeInfo.duration = 180
    /\ timeInfo.endTime = MinutesPerDay + 60

\* C20: parseTaskTime("@s+N<unit>") returns start = s, duration = 60 * N
\* for the units h and 小时 and N for min and 分钟, and end = start +
\* duration, also past midnight.
C20_DurationToken ==
    (pc = "parseTaskTime" /\ data.form = "duration") =>
        /\ timeInfo # Null
        /\ timeInfo.startTime = data.start
        /\ timeInfo.duration =
               IF data.unit \in {"h", XiaoShi} THEN 60 * data.amount
               ELSE data.amount
        /\ timeInfo.endTime = timeInfo.startTime + timeInfo.duration
        /\ timeInfo.dueTime = Undefined

\* "@22:00+600分钟" was parsed: 600 minutes that end at 08:00 of the next day.
C20_Witness ==
    /\ pc = "parseTaskTime"
    /\ token = "@22:00+600" \o FenZhong
    /\ timeInfo # Null
    /\ timeInfo.duration = 600
    /\ timeInfo.endTime = MinutesPerDay + 480

\* A step that changes a setting of a renderer that has content.
SettingsSaved ==
    /\ currentContent # ""
    /\ intervalMinutes' # intervalMinutes \/ enableDragging' # enableDragging

RunningGroupEnd(i) ==
    SetMax({EntryEnd(j) : j \in {k \in 1..(i - 1) :
                                    taskLayout[k].group = taskLayout[i - 1].group}})

\* What the layout gives a task, without the task and the group it names.
Placement(entry) ==
    [offset |-> entry.offset, width |-> entry.width,
     groupSize |-> entry.groupSize, column |-> entry.column]

Placements(layout) == [i \in DOMAIN layout |-> Placement(layout[i])]

\* The entries of group g, and their tasks, in the order of the layout.
GroupLayout(g) == SelectSeq(taskLayout, LAMBDA entry : entry.group = g)

GroupTasks(g) == [i \in DOMAIN GroupLayout(g) |-> tasks[GroupLayout(g)[i].task]]

\* C22: the entries are in start order; an entry is in the group of the
\* entry before it exactly when its start is <= the running maximum end of
\* that group, and opens the next group otherwise; the placements of a group
\* are those its tasks get when they are laid out alone; and the tasks
\* 09:00+30min, 09:15+30min, 09:50+15min get groupSize 2, columns 0 and 1,
\* widths 50 and 50, offsets 0 and 50, and groupSize 1, column 0, width 100,
\* offset 0.
C22_GroupsFromOneSweep ==
    pc = "done" =>
        /\ \A i \in DOMAIN taskLayout :
               IF i = 1 THEN taskLayout[i].group = 1
               ELSE /\ EntryStart(i - 1) <= EntryStart(i)
                    /\ IF EntryStart(i) <= RunningGroupEnd(i)
                       THEN taskLayout[i].group = taskLayout[i - 1].group
                       ELSE taskLayout[i].group = taskLayout[i - 1].group + 1
        /\ \A g \in LayoutGroupIds :
               Placements(calculateOverlapLayout(GroupTasks(g)))
                   = Placements(GroupLayout(g))
        /\ tasks = ScenarioA =>
               Placements(taskLayout) =
                   <<[offset |-> 0, width |-> 50 * PctUnits,
                      groupSize |-> 2, column |-> 0],
                     [offset |-> 50 * PctUnits,
                      width |-> 50 * PctUnits,
                      groupSize |-> 2, column |-> 1],
                     [offset |-> 0, width |-> 100 * PctUnits,
                      groupSize |-> 1, column |-> 0]>>

\* The three tasks of the scenario are laid out in two groups.
C22_Witness ==
    /\ pc = "done"
    /\ tasks = ScenarioA
    /\ Len(taskLayout) = 3
    /\ taskLayout[2].group = 1
    /\ taskLayout[3].group = 2

\* 100/g percent times 0.68 for g = 3 and times 0.5 for g > 3, in PctUnits.
StatedWidth(g) ==
    IF g = 3 THEN (((100 * PctUnits) \div g) * 68) \div 100
    ELSE IF g > 3 THEN ((100 * PctUnits) \div g) \div 2
    ELSE (100 * PctUnits) \div g

\* C23: in a group of size g every width is 100/g percent, times 0.68 when
\* g = 3 and times 0.5 when g > 3, and the offset of column c is
\* c * (100/g) percent.
C23_WidthIsShareOfGroup ==
    pc = "done" =>
        \A i \in DOMAIN taskLayout :
            /\ taskLayout[i].width = StatedWidth(taskLayout[i].groupSize)
            /\ taskLayout[i].offset =
                   taskLayout[i].column * ((100 * PctUnits) \div taskLayout[i].groupSize)

\* C30: offset + width <= 100 percent for every task, and in one group the
\* span of a column ends at or before the offset of every later column.
C30_SpansInsideAndApart ==
    pc = "done" =>
        /\ \A i \in DOMAIN taskLayout :
               taskLayout[i].offset + taskLayout[i].width <= 100 * PctUnits
        /\ \A i, j \in DOMAIN taskLayout :
               (taskLayout[i].group = taskLayout[j].group
                    /\ taskLayout[i].column < taskLayout[j].column)
               => taskLayout[i].offset + taskLayout[i].width <= taskLayout[j].offset

(***************************************************************************)
(* calculateVerticalTaskPosition and calculateTimePosition applied on      *)
(* their own: one task with any start and end over a tick list of no, one  *)
(* or two windows, with the slot offsets the renderer can hold.  In this   *)
(* specification positioned is the value the task calculation returned     *)
(* and cachedSlotOffsets the offsets it came to use.                       *)
(***************************************************************************)

\* A second window of ticks, six hours after the first.
PositionTicks(interval) ==
    {<<>>, NowTicks(interval),
     NowTicks(interval) \o [k \in 1..4 |-> 900 + (k - 1) * interval]}

\* Times before, at, inside and after the windows, and in the hidden gap.
PositionTimes(slots, interval) ==
    IF Len(slots) = 0 THEN {540, 570}
    ELSE {slots[1] - 45, slots[1], slots[1] + 20, slots[2] + interval,
          slots[4] + interval - 1, slots[4] + interval + 20, 900,
          900 + interval + 10, slots[Len(slots)] + interval,
          slots[Len(slots)] + 2 * interval}

\* Offsets measured from slots that are 80 pixels high.
TallSlotOffsets(slots) == [i \in 1..Len(slots) |-> (i - 1) * 80]

\* No offsets (no container), the offsets measured from the slots, those of
\* taller slots, and the cached offsets of a shorter and of a longer tick
\* list.
PositionOffsets(slots) ==
    {<<>>, MeasureSlotOffsets(slots), TallSlotOffsets(slots),
     MeasureSlotOffsets(SubSeq(slots, 1, Min2(2, Len(slots)))),
     MeasureSlotOffsets(slots \o slots \o <<0>>)}

\* A renderer just constructed, but for the offsets it holds.
PositionInit ==
    /\ intervalMinutes \in IntervalChoices
    /\ timeSlots \in PositionTicks(intervalMinutes)
    /\ \E s, e \in PositionTimes(timeSlots, intervalMinutes) :
           tasks = <<Task(s, e, Undefined, Undefined)>>
    /\ taskLayout = <<>>
    /\ mergedRanges = <<>>
    /\ TokenIdle
    /\ currentContent = ""
    /\ dragHandler = Null
    /\ cachedSlotOffsets \in PositionOffsets(timeSlots)
    /\ frames = <<>>
    /\ pass = 0
    /\ slotData = FALSE
    /\ dropZones = FALSE
    /\ taskElements = <<>>
    /\ positioned = Null
    /\ updateTimer = Undefined
    /\ activeTimers = {}
    /\ timerCount = 0
    /\ currentTimeIndicator = Null
    /\ renders = 0
    /\ errorShown = FALSE
    /\ uncaughtError = FALSE
    /\ updateEvents = <<>>
    /\ updateCalls = 0
    /\ wallClock = Undefined
    /\ enableDragging = FALSE
    /\ pc = "input"

\* calculateVerticalTaskPosition(startTime, endTime, timeSlots, container)
CalculateTaskPosition ==
    /\ pc = "input"
    /\ positioned' = IF Len(timeSlots) = 0 THEN Null
                     ELSE calculateVerticalTaskPosition(
                              TaskStart(tasks[1]), TaskEnd(tasks[1]),
                              timeSlots, intervalMinutes, cachedSlotOffsets)
    /\ pc' = "positioned"
    /\ UNCHANGED <<layoutVars, tokenVars, currentContent, enableDragging,
                   dragHandler, cachedSlotOffsets, frames, pass, slotData,
                   dropZones, taskElements, updateTimer, activeTimers,
                   timerCount, currentTimeIndicator, renders, errorShown,
                   uncaughtError, updateEvents, updateCalls, wallClock>>

\* addCurrentTimeIndicator(timelineGrid, timeSlots) at the start of the task.
AddIndicatorAtStart ==
    /\ pc = "positioned"
    /\ \E position \in {calculateTimePosition(TaskStart(tasks[1]), timeSlots,
                                              intervalMinutes)} :
           IF position < 0 THEN UNCHANGED currentTimeIndicator
           ELSE currentTimeIndicator' =
                    [pass |-> pass, top |-> position, display |-> "block"]
    /\ wallClock' = TaskStart(tasks[1])
    /\ pc' = "compared"
    /\ UNCHANGED <<layoutVars, tokenVars, currentContent, enableDragging,
                   dragHandler, cachedSlotOffsets, frames, pass, slotData,
                   dropZones, taskElements, positioned, updateTimer,
                   activeTimers, timerCount, renders, errorShown,
                   uncaughtError, updateEvents, updateCalls>>

PositionNext == CalculateTaskPosition \/ AddIndicatorAtStart

SpecPosition == PositionInit /\ [][PositionNext]_vars

\* C24: for any start and end (an end at or before the start included), any
\* tick list that is not empty and any measured or cached slot offsets,
\* calculateVerticalTaskPosition returns a top of at least 0 and a height of
\* at least 20 pixels; for an empty tick list it returns no position and
\* raises nothing.
C24_PositionIsClamped ==
    pc \in {"positioned", "compared"} =>
        /\ uncaughtError = FALSE /\ errorShown = FALSE
        /\ IF Len(timeSlots) = 0 THEN positioned = Null
           ELSE /\ positioned # Null
                /\ positioned.top >= 0
                /\ positioned.height >= 20

\* A task that ends before it starts, and before the first tick, is placed
\* without slot offsets at top 0, 20 high.
C24_Witness ==
    /\ pc = "positioned"
    /\ Len(timeSlots) = 8
    /\ cachedSlotOffsets = <<>>
    /\ TaskEnd(tasks[1]) < TaskStart(tasks[1])
    /\ TaskEnd(tasks[1]) < timeSlots[1]
    /\ positioned = [top |-> 0, height |-> 20]

(***************************************************************************)
(* render(content) of a renderer just constructed when no call of the pass *)
(* throws, for texts without a task line and for texts that mix task lines *)
(* with other lines.                                                       *)
(***************************************************************************)

\* Nothing, blank lines, headings and notes, comments that hold a task line,
\* and lines that are not a checkbox followed by a name.
BlankContents ==
    {"", "\n\n", "   ", "# plan\nnote", "// - [ ] A @09:00",
     "# - [x] B @10:00", "* [ ] A @09:00", "- [X] A @09:00",
     "- A @09:00\n[ ] B @10:00", "- [] A @09:00", "-- [ ] A @09:00"}

\* Task lines among lines that are skipped.
MixedContents ==
    {"# plan\n- [ ] A @09:00\nnote\n\n- [x] B @09:30+1h",
     "- [ ] A @10:00\n// - [ ] C @08:00\n  - [ ] B @09:00  ",
     "* [ ] C @08:00\n- [ ] A due:10:00\n- [X] D @07:00"}

BlockContents == BlankContents \cup MixedContents

\* A trimmed line that starts with the checkbox of a task line.
CheckboxPrefixed(s) ==
    \E prefix \in {"- [ ]", "- [x]", "-[ ]", "-[x]"} : StartsWith(s, prefix)

\* The lines of the sequence given that start with a checkbox, in order.
RECURSIVE CheckboxLines(_)
CheckboxLines(lines) ==
    IF lines = <<>> THEN <<>>
    ELSE IF CheckboxPrefixed(trim(Head(lines)))
         THEN <<Head(lines)>> \o CheckboxLines(Tail(lines))
         ELSE CheckboxLines(Tail(lines))

\* lines.join('\n')
RECURSIVE Join(_)
Join(lines) ==
    IF lines = <<>> THEN ""
    ELSE IF Len(lines) = 1 THEN lines[1]
    ELSE lines[1] \o "\n" \o Join(Tail(lines))

\* The code block processor: renderer.render(source), no call throwing.
RenderBlock ==
    /\ pc = "created"
    /\ \E content \in BlockContents, now \in NewDate :
           /\ RenderCompletes(content, now, intervalMinutes, enableDragging)
           /\ wallClock' = now
    /\ pc' = "rendered"
    /\ UNCHANGED <<intervalMinutes, enableDragging, renders, tokenVars,
                   updateEvents, updateCalls>>

BlockNext == RenderBlock \/ Frame

SpecBlock == Init /\ [][BlockNext]_vars

\* C25: rendering a text without a checkbox-prefixed task line gives an empty
\* task list and an empty tick list and the empty state (no grid, no drop
\* zones, no drag handler, no callback waiting), starts no timer and shows no
\* error; and the tasks of any text are those of its checkbox-prefixed lines
\* alone.
C25_NoTaskLineGivesEmptyState ==
    pc = "rendered" =>
        /\ CheckboxLines(Split(currentContent)) = <<>> =>
               /\ tasks = <<>>
               /\ timeSlots = <<>>
               /\ taskLayout = <<>> /\ frames = <<>> /\ taskElements = <<>>
               /\ dropZones = FALSE /\ slotData = FALSE /\ dragHandler = Null
               /\ updateTimer = Undefined /\ activeTimers = {}
               /\ currentTimeIndicator = Null
               /\ errorShown = FALSE /\ uncaughtError = FALSE
        /\ tasks = sortTasksByTime(parseTasksFromContent(
                       Join(CheckboxLines(Split(currentContent)))))

\* A text of a heading and a note is rendered with dragging enabled.
C25_Witness ==
    /\ pc = "rendered"
    /\ currentContent = "# plan\nnote"
    /\ enableDragging
    /\ tasks = <<>>

(***************************************************************************)
(* TimeParser.parseTime followed by TimeParser.formatTime, for every hour  *)
(* and minute of the day written with two hour digits and, before 10:00,   *)
(* with one.  In this specification newLine is the text formatTime         *)
(* returned.                                                               *)
(***************************************************************************)
TwoDigits(n) == CharAt(Digits, (n \div 10) + 1) \o CharAt(Digits, (n % 10) + 1)

\* "HH:mm" of a minute of the day.
CanonicalText(time) ==
    TwoDigits(time \div 60) \o ":" \o TwoDigits(time % 60)

\* "H:mm" of a minute of the day before 10:00.
ShortText(time) == CharAt(Digits, (time \div 60) + 1) \o ":" \o TwoDigits(time % 60)

RoundTripInputs ==
    {GrammarInput("canonical", CanonicalText(t), t, Undefined, Undefined, "") :
         t \in 0..(MinutesPerDay - 1)}
        \cup {GrammarInput("short", ShortText(t), t, Undefined, Undefined, "") :
                  t \in 0..(10 * 60 - 1)}

RoundTripInit ==
    /\ LayoutIdle
    /\ RendererIdle
    /\ intervalMinutes = 30
    /\ pc = "input"
    /\ data \in RoundTripInputs
    /\ token = data.token
    /\ newTime = Undefined
    /\ adjustedTime = Undefined
    /\ newLine = Undefined
    /\ editedData = Undefined
    /\ timeInfo = Undefined

\* TimeParser.formatTime(date) of the date parseTime returned.
CallFormatTime ==
    /\ pc = "parseTime"
    /\ newTime # Undefined
    /\ newLine' = formatTime(newTime)
    /\ pc' = "formatTime"
    /\ UNCHANGED <<layoutVars, rendererVars, data, newTime, adjustedTime,
                   editedData, token, timeInfo>>

RoundTripNext == CallParseTime \/ CallFormatTime

SpecRoundTrip == RoundTripInit /\ [][RoundTripNext]_vars

\* C26: for every hour H in 0..23 and minute M in 0..59, parseTime of the
\* 24-hour text of H and M, written with two hour digits or with one, gives a
\* date, and formatTime of that date is the zero-padded "HH:mm" of H and M;
\* a canonical text comes back unchanged.
C26_FormatOfParseIsCanonical ==
    /\ pc = "parseTime" => newTime = data.start
    /\ pc = "formatTime" =>
           /\ newLine = CanonicalText(data.start)
           /\ data.form = "canonical" => newLine = token

\* "9:05" was parsed and formatted as "09:05".
C26_Witness ==
    /\ pc = "formatTime"
    /\ token = "9:05"
    /\ newLine = "09:05"

(***************************************************************************)
(* One renderer whose text holds two task lines of which one is equal to,  *)
(* or the start of, the other: its render, the callback that creates the   *)
(* task elements, and a drop, a toggle or an edit save on one element.     *)
(***************************************************************************)
\* The second line starts the first; two equal lines; two unlike lines.
UpdateContents ==
    {"- [ ] A @9:00+1h\n- [ ] A @9:00",
     "- [ ] A @9:00\n- [ ] A @9:00",
     "- [ ] A @09:00\n- [x] B @09:30+1h"}

\* The code block processor: renderer.render(source).
RenderTaskLines ==
    /\ pc = "created"
    /\ \E content \in UpdateContents, now \in NewDate :
           /\ RenderPass(content, now, intervalMinutes, enableDragging)
           /\ wallClock' = now
    /\ pc' = "rendered"
    /\ UNCHANGED <<intervalMinutes, enableDragging, renders, tokenVars,
                   updateEvents, updateCalls>>

UpdateNext == RenderTaskLines \/ Frame \/ Drop \/ Toggle \/ EditSave

SpecUpdate == Init /\ [][UpdateNext]_vars

\* The step of a handleTaskUpdate: the lines other than the old line of the
\* update are kept, the number of lines is kept, and a line that was the old
\* line is the new line.
OnlyTheLineActedOnChanges ==
    updateCalls' = updateCalls + 1 =>
        \E ev \in {updateEvents'[Len(updateEvents')]} :
        \E old \in {Split(currentContent)} :
        \E new \in {Split(currentContent')} :
            /\ Len(new) = Len(old)
            /\ \A i \in DOMAIN old :
                   (i \in DOMAIN new /\ old[i] # ev.oldLine) => new[i] = old[i]
            /\ \E i \in DOMAIN old :
                   /\ i \in DOMAIN new
                   /\ old[i] = ev.oldLine
                   /\ new[i] = ev.newLine

\* C27: a drop, a completion toggle or an edit save on one task changes only
\* the line of that task in the content of the renderer: every other line is
\* as it was, the number of lines is as it was, and the line that changed is
\* the line of the task acted on.
C27_OnlyTheTaskLineChanges == [][OnlyTheLineActedOnChanges]_vars

\* C28: the now indicator and the tasks share one mapping from time to
\* pixels: for any tick list, one of several windows with hidden gaps between
\* them included, the offset calculateTimePosition gives to an instant in
\* range is the top calculateVerticalTaskPosition gives to a task that starts
\* at that instant, the slots being 60 pixels high each.
C28_IndicatorAndTasksShareMapping ==
    (/\ pc = "compared"
     /\ currentTimeIndicator # Null
     /\ cachedSlotOffsets = MeasureSlotOffsets(timeSlots))
    => currentTimeIndicator.top = positioned.top

\* Ticks a to b follow one another at the interval: no hidden gap between.
NoGapBetween(a, b) ==
    \A k \in a..(b - 1) : timeSlots[k + 1] - timeSlots[k] = intervalMinutes

\* The task lies inside the axis: ticks bracket its start and its effective
\* end with no gap between them, and a slot holds each of the two instants.
InsideAxis(task) ==
    /\ \E a, b \in DOMAIN timeSlots :
           /\ timeSlots[a] <= TaskStart(task)
           /\ timeSlots[b] >= TaskEnd(task)
           /\ NoGapBetween(a, b)
    /\ ActualSlotIndex(TaskStart(task), timeSlots, intervalMinutes) >= 1
    /\ ActualSlotIndex(TaskEnd(task), timeSlots, intervalMinutes) >= 1

\* C29: for any tasks and an interval of 15, 30 or 60 minutes, every task
\* with a time lies inside the axis shown: the ticks of
\* generateDynamicTimeSlots hold a tick at or before its start and a tick at
\* or after its effective end with no hidden gap between the two, so that
\* calculateVerticalTaskPosition finds a slot for the start and for the end.
C29_TasksInsideAxis ==
    pc = "done" => \A i \in DOMAIN tasks : HasTime(tasks[i]) => InsideAxis(tasks[i])
====
